---- MODULE Spec2Model ----
(***************************************************************************)
(* PearServer: Cage lifecycle, Cage Pool and Traffic Router.               *)
(*                                                                         *)
(*   src/src/cage/mod.rs    Cage (state machine, healthy flag, counters)   *)
(*   src/src/cage/pool.rs   CagePool (replica list, selection, upkeep)     *)
(*   src/src/router/mod.rs  Router (site registry, dispatch, counters)     *)
(*   src/src/router/health.rs   CircuitBreaker                             *)
(*   src/src/supervisor/mod.rs  Supervisor (supervision loop, healing)     *)
(*   src/src/deployment/mod.rs  CanaryManager, ErrorRateTracker             *)
(*   src/src/deployment/rollout.rs  RollingUpdateOrchestrator               *)
(*                                                                         *)
(* Tasks of the async runtime are modelled as small processes whose        *)
(* steps are the atomic operations and suspension points of the code.      *)
(***************************************************************************)
EXTENDS Integers, Sequences, FiniteSets, TLC

(***************************************************************************)
(* Bounds of the model                                                     *)
(***************************************************************************)
\* tasks that call maintain_replicas on one Pool concurrently
NumMaintainers == 2
\* largest number of worker threads of the runtime
MaxWorkers == 2
\* largest target_replicas of a Pool
MaxReplicas == 2
\* spawn attempts a Pool may make after its construction
MaxRespawns == 2
\* concurrent route_request tasks
NumTasks == 2
\* route_request calls made in one behaviour of Spec
MaxCalls == 2
\* route_request calls made in one behaviour of SpecSelect
MaxSelectCalls == 1
\* largest Pool of SpecRR, and the sequential route_request calls made in
\* one of its behaviours
MaxRRReplicas == 3
MaxRRCalls == 9
\* largest failure_threshold and success_threshold of a CircuitBreaker
MaxThreshold == 3
\* largest retry_timeout of a CircuitBreaker, in clock ticks
MaxRetryTimeout == 2
\* supervision loops a Supervisor may spawn in one behaviour
MaxLoops == 2
\* largest max_respawn_attempts of a Supervisor
MaxAttempts == 2
\* max_respawn_delay_ms is 2^e ms with e up to MaxDelayExp
MaxDelayExp == 1
\* largest attempt count given to calculate_backoff (a u32 in the code)
MaxAttemptCount == 64
\* create_canary calls made in one behaviour
MaxCanaries == 2
\* record_request calls made for one canary id in one behaviour
MaxRequests == 2
\* direct callers of Cage::execute_request
NumCallers == 2

(***************************************************************************)
(* Values                                                                  *)
(***************************************************************************)
\* u64::MAX, the initial min_requests of the least-connected scan; the
\* largest integer of the checker stands for it (no counter reaches it)
U64_MAX == 2147483647

NoCage == -1
MaxCageIds ==
    IF MaxReplicas + MaxRespawns > MaxRRReplicas
    THEN MaxReplicas + MaxRespawns ELSE MaxRRReplicas
CageIds == 0 .. (MaxCageIds - 1)
Tasks == 1 .. NumTasks

\* enum CageState, and "Absent" for an id whose Cage does not exist
\* (not yet created, or dropped after a failed spawn)
CageState == {"Initializing", "Running", "Crashed", "Terminating", "Terminated"}
Absent == "Absent"

\* site keys a request's Host header can carry; only RegisteredSite ever
\* has a Pool
RegisteredSite == "site"
Sites == {"site", "other"}

VARIABLES
    \* ---- Cage (one entry per cage id) ----
    state,              \* Cage.state
    healthy,            \* Cage.healthy
    active_requests,    \* Cage.active_requests
    request_count,      \* Cage.request_count
    \* ---- CagePool ----
    cages,              \* CagePool.cages, the replica list (cage ids)
    target_replicas,    \* CagePool.target_replicas
    next_cage_id,       \* CagePool.next_cage_id
    round_robin_index,  \* CagePool.round_robin_index
    \* ---- Router ----
    pools,              \* Router.pools: the registered site keys
    strategy,           \* Router.config.strategy
    total_requests,     \* Router.total_requests
    successful_requests,\* Router.successful_requests
    failed_requests,    \* Router.failed_requests
    \* ---- tasks ----
    req,                \* the route_request tasks
    mt,                 \* the task calling maintain_replicas
    max_calls,          \* route_request calls this behaviour may make
    \* ---- CircuitBreaker ----
    breaker,            \* CircuitBreaker.state, .consecutive_failures,
                        \* .consecutive_successes
    failure_threshold,  \* CircuitBreaker.failure_threshold
    success_threshold,  \* CircuitBreaker.success_threshold
    retry_timeout,      \* CircuitBreaker.retry_timeout
    breaker_log,        \* what the breaker's caller has done (history)
    \* ---- Supervisor ----
    sup_config,         \* Supervisor.config
    supervised,         \* Supervisor.pools: site key -> SupervisedPool record
    healing_events,     \* Supervisor.healing_events
    running,            \* Supervisor.running
    loops,              \* the supervision loops spawned by start()
    backoff,            \* a call of calculate_backoff: arguments and result
    \* ---- CanaryManager ----
    canaries,           \* CanaryManager.canaries: site key -> CanaryDeployment
    errors,             \* ErrorRateTracker.errors: canary id -> ErrorStats
    next_canary,        \* the canary ids (Uuid) handed out so far
    pre_recorded,       \* requests recorded for the first canary before the
                        \* behaviour starts
    dep_ret,            \* the latest call of the CanaryManager and its result
    chk,                \* a caller of check_error_rate
    \* ---- RollingUpdateOrchestrator ----
    ru,                 \* the task running execute()
    \* ---- direct callers of a Cage ----
    creq,               \* tasks calling Cage::execute_request
    term,               \* the task calling Cage::terminate: its clock
    cage_ret,           \* the latest call of initialize() or health_check()
                        \* by a direct caller, and its result
    initialized,        \* the Cages whose initialize() has returned Ok
    \* ---- tasks of the runtime, Pools of the process ----
    mtasks,             \* tasks calling maintain_replicas concurrently
    workers,            \* worker threads of the runtime
    site_pools          \* per site key: its Pool's next_cage_id and the ids
                        \* its spawn_cage calls have handed out

cageVars == <<state, healthy, active_requests, request_count>>
poolVars == <<cages, target_replicas, next_cage_id, round_robin_index>>
routerVars == <<pools, strategy, total_requests, successful_requests, failed_requests>>
breakerVars == <<breaker, failure_threshold, success_threshold, retry_timeout,
                 breaker_log>>
supVars == <<sup_config, supervised, healing_events, running, loops, backoff>>
depVars == <<canaries, errors, next_canary, pre_recorded, dep_ret, chk, ru>>
taskVars == <<mtasks, workers, site_pools>>
callerVars == <<creq, term, cage_ret, initialized, taskVars>>
vars == <<state, healthy, active_requests, request_count,
          cages, target_replicas, next_cage_id, round_robin_index,
          pools, strategy, total_requests, successful_requests, failed_requests,
          req, mt, max_calls,
          breaker, failure_threshold, success_threshold, retry_timeout,
          breaker_log,
          sup_config, supervised, healing_events, running, loops, backoff,
          canaries, errors, next_canary, pre_recorded, dep_ret, chk, ru,
          creq, term, cage_ret, initialized, mtasks, workers, site_pools>>

Range(s) == {s[i] : i \in 1 .. Len(s)}

(***************************************************************************)
(* Cage  (src/src/cage/mod.rs)                                             *)
(***************************************************************************)
\* Cage::new: the fields of a freshly built Cage
NewCageState == "Initializing"
NewCageHealthy == TRUE

\* the state write lock is held for the whole of terminate(), from the
\* write of Terminating to the write of Terminated
StateLocked(c) == state[c] = "Terminating"

\* Cage::is_healthy
is_healthy(c) == healthy[c]

\* Cage::initialize: instantiate the module, then write Running
initialize(c, ok) ==
    /\ state[c] \in CageState
    /\ ~StateLocked(c)
    /\ state' = IF ok THEN [state EXCEPT ![c] = "Running"] ELSE state
    /\ UNCHANGED <<healthy, active_requests, request_count>>

\* the healthy flag health_check leaves behind, by the state it reads
HealthAfterCheck(s, h) ==
    CASE s = "Running" -> TRUE
      [] s \in {"Crashed", "Terminating", "Terminated"} -> FALSE
      [] OTHER -> h

\* Cage::health_check
health_check(c) ==
    /\ state[c] \in CageState
    /\ ~StateLocked(c)
    /\ healthy' = [healthy EXCEPT ![c] = HealthAfterCheck(state[c], healthy[c])]
    /\ UNCHANGED <<state, active_requests, request_count>>

\* Cage::mark_crashed
mark_crashed(c) ==
    /\ state[c] \in CageState
    /\ ~StateLocked(c)
    /\ state' = [state EXCEPT ![c] = "Crashed"]
    /\ healthy' = [healthy EXCEPT ![c] = FALSE]
    /\ UNCHANGED <<active_requests, request_count>>

\* Cage::terminate, first half: take the state lock, write Terminating
terminate_begin(c) ==
    /\ state[c] \in CageState
    /\ ~StateLocked(c)
    /\ state' = [state EXCEPT ![c] = "Terminating"]
    /\ UNCHANGED <<healthy, active_requests, request_count>>

\* Cage::terminate, second half: the wait loop has ended (no active
\* request, or the 5 s grace period is over); write Terminated, clear healthy
terminate_end(c, timeout) ==
    /\ state[c] = "Terminating"
    /\ active_requests[c] = 0 \/ timeout
    /\ state' = [state EXCEPT ![c] = "Terminated"]
    /\ healthy' = [healthy EXCEPT ![c] = FALSE]
    /\ UNCHANGED <<active_requests, request_count>>

(***************************************************************************)
(* Tasks                                                                   *)
(***************************************************************************)
\* a route_request task before its first call
IdleReq ==
    [pc |-> "idle", site |-> RegisteredSite, found |-> FALSE,
     snap |-> <<>>, start_index |-> 0, offset |-> 0,
     best_cage |-> NoCage, min_requests |-> U64_MAX, obs |-> <<>>,
     cage |-> NoCage, invoked |-> FALSE, exec_ok |-> FALSE,
     status |-> 0, body |-> NoCage, prev_cage |-> NoCage]

\* the maintain_replicas task before its first call
IdleMt ==
    [pc |-> "idle", removed |-> 0, to_spawn |-> 0, new_cage |-> NoCage,
     spawn_failed |-> FALSE, result |-> "none", quiet |-> FALSE,
     in_succession |-> FALSE, prev_size |-> 0, prev_failed |-> FALSE]

\* the replica list's RwLock: a selection holds the read lock for its scan
ReadLocked == \E r \in Tasks : req[r].pc = "scan"

\* a Cage crashing or terminating ends the quiet period that began with the
\* latest removal pass of maintain_replicas
Disturb == mt' = [mt EXCEPT !.quiet = FALSE]

(***************************************************************************)
(* CagePool  (src/src/cage/pool.rs)                                        *)
(***************************************************************************)
\* (variant: Terminated Cages are kept)
RetainedUnlessCrashed(c) == state[c] # "Crashed"

\* the retain predicate of remove_crashed_cages
Retained(c) == state[c] # "Crashed" /\ state[c] # "Terminated"

\* Vec::retain of remove_crashed_cages
RetainCages(list) == SelectSeq(list, Retained)

\* (variant: the current size is ignored)
ToSpawnTarget(current_count) == target_replicas

\* the number of Cages maintain_replicas sets out to spawn
ToSpawn(current_count) ==
    IF current_count < target_replicas THEN target_replicas - current_count ELSE 0

\* this maintain_replicas call follows an earlier one, and no Cage has
\* crashed or terminated since that call's removal pass
InSuccession == mt.pc = "done" /\ mt.quiet

\* CagePool::remove_crashed_cages, as the first step of maintain_replicas.
\* block_on(cage.state()) cannot return while terminate() holds the state
\* lock of a Cage in the list.
remove_crashed_cages ==
    /\ mt.pc \in {"idle", "done"}
    /\ next_cage_id + ToSpawn(Len(RetainCages(cages))) <= MaxCageIds
    /\ ~ReadLocked
    /\ \A c \in Range(cages) : ~StateLocked(c)
    /\ cages' = RetainCages(cages)
    /\ mt' = [mt EXCEPT !.pc = "count",
                        !.removed = Len(cages) - Len(RetainCages(cages)),
                        !.to_spawn = 0, !.new_cage = NoCage,
                        !.spawn_failed = FALSE, !.result = "none",
                        !.quiet = TRUE,
                        !.in_succession = InSuccession,
                        !.prev_size = IF InSuccession THEN Len(cages) ELSE 0,
                        !.prev_failed = InSuccession /\ mt.spawn_failed]
    /\ UNCHANGED <<cageVars, target_replicas, next_cage_id, round_robin_index,
                   routerVars, req, max_calls, breakerVars, supVars, depVars, callerVars>>

\* maintain_replicas: read the size, decide how many Cages to spawn
maintain_count ==
    /\ mt.pc = "count"
    /\ LET n == ToSpawn(Len(cages)) IN
       mt' = [mt EXCEPT !.to_spawn = n,
                        !.pc = IF n > 0 THEN "spawn" ELSE "done",
                        !.result = IF n > 0 THEN @ ELSE "Ok"]
    /\ UNCHANGED <<cageVars, poolVars, routerVars, req, max_calls, breakerVars, supVars, depVars, callerVars>>

\* (variant: a spawn error is propagated with `?`, as CagePool::new does)
AfterSpawnPropagate(m, ok) ==
    IF ok
    THEN [m EXCEPT !.new_cage = NoCage, !.to_spawn = @ - 1,
                   !.pc = IF m.to_spawn = 1 THEN "done" ELSE "spawn",
                   !.result = IF m.to_spawn = 1 THEN "Ok" ELSE @]
    ELSE [m EXCEPT !.new_cage = NoCage, !.to_spawn = 0, !.spawn_failed = TRUE,
                   !.pc = "done", !.result = "Err"]

\* maintain_replicas after one spawn_cage call has returned: the loop goes
\* on, or the call returns Ok
AfterSpawn(m, ok) ==
    [m EXCEPT !.new_cage = NoCage,
              !.to_spawn = @ - 1,
              !.spawn_failed = IF ok THEN @ ELSE TRUE,
              !.pc = IF m.to_spawn = 1 THEN "done" ELSE "spawn",
              !.result = IF m.to_spawn = 1 THEN "Ok" ELSE @]

\* spawn_cage: take the next id, then create_engine and Cage::new
spawn_new(ok) ==
    /\ mt.pc = "spawn"
    /\ next_cage_id \in CageIds
    /\ next_cage_id' = next_cage_id + 1
    /\ IF ok
       THEN /\ state' = [state EXCEPT ![next_cage_id] = NewCageState]
            /\ healthy' = [healthy EXCEPT ![next_cage_id] = NewCageHealthy]
            /\ mt' = [mt EXCEPT !.pc = "init", !.new_cage = next_cage_id]
       ELSE /\ mt' = AfterSpawn(mt, FALSE)
            /\ UNCHANGED <<state, healthy>>
    /\ UNCHANGED <<active_requests, request_count, cages, target_replicas,
                   round_robin_index, routerVars, req, max_calls, breakerVars, supVars, depVars, callerVars>>

\* spawn_cage: cage.initialize(); on an error the new Cage is dropped
spawn_initialize(ok) ==
    /\ mt.pc = "init"
    /\ IF ok
       THEN /\ state' = [state EXCEPT ![mt.new_cage] = "Running"]
            /\ mt' = [mt EXCEPT !.pc = "push"]
            /\ UNCHANGED healthy
       ELSE /\ state' = [state EXCEPT ![mt.new_cage] = Absent]
            /\ healthy' = [healthy EXCEPT ![mt.new_cage] = FALSE]
            /\ mt' = AfterSpawn(mt, FALSE)
    /\ UNCHANGED <<active_requests, request_count, poolVars, routerVars,
                   req, max_calls, breakerVars, supVars, depVars, callerVars>>

\* spawn_cage: take the write lock and push the Cage
spawn_push ==
    /\ mt.pc = "push"
    /\ ~ReadLocked
    /\ cages' = Append(cages, mt.new_cage)
    /\ mt' = AfterSpawn(mt, TRUE)
    /\ UNCHANGED <<cageVars, target_replicas, next_cage_id, round_robin_index,
                   routerVars, req, max_calls, breakerVars, supVars, depVars, callerVars>>

\* (variant: the offset is left out, the scan stays on one Cage)
ScanIndexNoOffset(start_index, offset, len) == start_index % len

\* the index get_cage_round_robin examines at a given offset of its scan
ScanIndex(start_index, offset, len) == (start_index + offset) % len

\* (variant: the cursor is read and not advanced)
NextCursorStuck(i) == i

\* fetch_add(1) on the round-robin cursor
NextCursor(i) == i + 1

\* (variant: a later Cage with an equal count replaces the best)
IsBetterOrEqual(active, min_requests) == active <= min_requests

\* the comparison that makes a Cage the new best of the least-connected scan
IsBetter(active, min_requests) == active < min_requests

\* StatusCode::NOT_FOUND, SERVICE_UNAVAILABLE, INTERNAL_SERVER_ERROR, OK
StatusNotFound == 404
StatusUnavailable == 503
StatusInternalError == 500
StatusOk == 200

\* execute_request is entered: the locals of the selection are gone
Selected(t) ==
    [t EXCEPT !.snap = <<>>, !.start_index = 0, !.offset = 0,
              !.best_cage = NoCage, !.min_requests = U64_MAX, !.obs = <<>>]

\* (variant: error_response ignores the status it is given and answers 503)
FailAsUnavailable(t, code) ==
    [t EXCEPT !.pc = "done", !.status = 503, !.prev_cage = NoCage]

\* route_request returning an error response
Fail(t, code) == [t EXCEPT !.pc = "done", !.status = code, !.prev_cage = NoCage]

\* (variant: the 503 arm does not count the failure)
FailedAfterUncounted503(n, code) == IF code = 503 THEN n ELSE n + 1

\* failed_requests after route_request has answered with an error status
FailedAfter(n, code) == n + 1

(***************************************************************************)
(* Router  (src/src/router/mod.rs)                                         *)
(***************************************************************************)
\* a request without a Host header, and the key such a request gets
NoHost == "<none>"
DefaultSite == "default-site"
\* RegisteredSite written in capitals, as a Host header may carry it
UpperSite == "SITE"
HostHeaders == {RegisteredSite, UpperSite, "other", NoHost}

\* Router::extract_site_id: the Host header's text as it is received, or
\* default-site
extract_site_id(host) == IF host = NoHost THEN DefaultSite ELSE host

\* route_request: total_requests.fetch_add(1); extract_site_id
route_begin(r, host) ==
    /\ req[r].pc \in {"idle", "done"}
    /\ total_requests < max_calls
    /\ total_requests' = total_requests + 1
    /\ req' = [req EXCEPT ![r] = [IdleReq EXCEPT !.pc = "lookup",
                                     !.site = extract_site_id(host),
                                     !.prev_cage = req[r].cage]]
    /\ UNCHANGED <<cageVars, poolVars, pools, strategy, successful_requests,
                   failed_requests, mt, max_calls, breakerVars, supVars, depVars, callerVars>>

\* route_request: self.pools.get(&site_id)
route_lookup(r) ==
    /\ req[r].pc = "lookup"
    /\ IF req[r].site \in pools
       THEN /\ req' = [req EXCEPT ![r].pc = "select", ![r].found = TRUE]
            /\ UNCHANGED failed_requests
       ELSE /\ req' = [req EXCEPT ![r] = Fail(@, StatusNotFound)]
            /\ failed_requests' = FailedAfter(failed_requests, StatusNotFound)
    /\ UNCHANGED <<cageVars, poolVars, pools, strategy, total_requests,
                   successful_requests, mt, max_calls, breakerVars, supVars, depVars, callerVars>>

\* get_cage_round_robin / get_cage_least_connected: take the read lock;
\* an empty list returns None at once, and the Router answers 503
select_begin(r) ==
    /\ req[r].pc = "select"
    /\ IF Len(cages) = 0
       THEN /\ req' = [req EXCEPT ![r] = Fail(@, StatusUnavailable)]
            /\ failed_requests' = FailedAfter(failed_requests, StatusUnavailable)
            /\ UNCHANGED round_robin_index
       ELSE /\ UNCHANGED failed_requests
            /\ IF strategy = "RoundRobin"
               THEN /\ round_robin_index' = NextCursor(round_robin_index)
                    /\ req' = [req EXCEPT ![r].pc = "scan", ![r].snap = cages,
                                 ![r].start_index = round_robin_index % Len(cages)]
               ELSE /\ UNCHANGED round_robin_index
                    /\ req' = [req EXCEPT ![r].pc = "scan", ![r].snap = cages]
    /\ UNCHANGED <<cageVars, cages, target_replicas, next_cage_id, pools,
                   strategy, total_requests, successful_requests, mt, max_calls, breakerVars, supVars, depVars, callerVars>>

\* one iteration of the round-robin scan
ScanRoundRobin(t) ==
    LET c == cages[ScanIndex(t.start_index, t.offset, Len(cages)) + 1]
        seen == [t EXCEPT !.obs = Append(@, [cage |-> c, healthy |-> is_healthy(c),
                                             active |-> 0])]
    IN  IF is_healthy(c)
        THEN [seen EXCEPT !.pc = "exec", !.cage = c, !.prev_cage = NoCage]
        ELSE IF t.offset + 1 = Len(cages)
             THEN Fail(seen, StatusUnavailable)
             ELSE [seen EXCEPT !.offset = @ + 1]

\* one iteration of the least-connected scan, and its return
ScanLeastConnected(t) ==
    LET c == cages[t.offset + 1]
        \* active_request_count() is read for a healthy Cage only
        active == IF is_healthy(c) THEN active_requests[c] ELSE 0
        better == is_healthy(c) /\ IsBetter(active, t.min_requests)
        seen == [t EXCEPT !.obs = Append(@, [cage |-> c, healthy |-> is_healthy(c),
                                             active |-> active]),
                          !.min_requests = IF better THEN active ELSE @,
                          !.best_cage = IF better THEN c ELSE @]
    IN  IF t.offset + 1 < Len(cages)
        THEN [seen EXCEPT !.offset = @ + 1]
        ELSE IF seen.best_cage = NoCage
             THEN Fail(seen, StatusUnavailable)
             ELSE [seen EXCEPT !.pc = "exec", !.cage = seen.best_cage,
                               !.prev_cage = NoCage]

\* a scan iteration of either selection, under the read lock
select_scan(r) ==
    /\ req[r].pc = "scan"
    /\ LET t == IF strategy = "RoundRobin" THEN ScanRoundRobin(req[r])
                ELSE ScanLeastConnected(req[r])
       IN /\ req' = [req EXCEPT ![r] = t]
          /\ failed_requests' = IF t.pc = "done"
                                THEN FailedAfter(failed_requests, t.status)
                                ELSE failed_requests
    /\ UNCHANGED <<cageVars, poolVars, pools, strategy, total_requests,
                   successful_requests, mt, max_calls, breakerVars, supVars, depVars, callerVars>>

\* Cage::execute_request, entry: refuse unless healthy (the Router answers
\* 500), else count the request as active
execute_begin(r) ==
    /\ req[r].pc = "exec"
    /\ LET c == req[r].cage IN
       IF is_healthy(c)
       THEN /\ active_requests' = [active_requests EXCEPT ![c] = @ + 1]
            /\ req' = [req EXCEPT ![r] = [Selected(@) EXCEPT !.pc = "running",
                                                            !.invoked = TRUE]]
            /\ UNCHANGED failed_requests
       ELSE /\ req' = [req EXCEPT ![r] = Fail(Selected(@), StatusInternalError)]
            /\ failed_requests' = FailedAfter(failed_requests, StatusInternalError)
            /\ UNCHANGED active_requests
    /\ UNCHANGED <<state, healthy, request_count, poolVars, pools, strategy,
                   total_requests, successful_requests, mt, max_calls, breakerVars, supVars, depVars, callerVars>>

\* Cage::execute_request, exit, and route_request's Ok arm
execute_end(r) ==
    /\ req[r].pc = "running"
    /\ LET c == req[r].cage IN
       /\ active_requests' = [active_requests EXCEPT ![c] = @ - 1]
       /\ request_count' = [request_count EXCEPT ![c] = @ + 1]
       /\ req' = [req EXCEPT ![r].pc = "done", ![r].exec_ok = TRUE,
                             ![r].status = StatusOk, ![r].body = c]
    /\ successful_requests' = successful_requests + 1
    /\ UNCHANGED <<state, healthy, poolVars, pools, strategy, total_requests,
                   failed_requests, mt, max_calls, breakerVars, supVars, depVars, callerVars>>

\* Router::register_pool / Router::unregister_pool
register_pool(site) ==
    /\ site = RegisteredSite
    /\ site \notin pools
    /\ pools' = pools \cup {site}
    /\ UNCHANGED <<cageVars, poolVars, strategy, total_requests,
                   successful_requests, failed_requests, req, mt, max_calls, breakerVars, supVars, depVars, callerVars>>

unregister_pool(site) ==
    /\ site \in pools
    /\ pools' = pools \ {site}
    /\ UNCHANGED <<cageVars, poolVars, strategy, total_requests,
                   successful_requests, failed_requests, req, mt, max_calls, breakerVars, supVars, depVars, callerVars>>

(***************************************************************************)
(* CircuitBreaker  (src/src/router/health.rs)                              *)
(***************************************************************************)
\* the counters are AtomicU64; the model stops counting at CounterCap, past
\* every threshold
CounterCap == MaxThreshold + 2

\* CircuitBreaker::new
NewBreaker == [state |-> "Closed", consecutive_failures |-> 0,
               consecutive_successes |-> 0]

\* history of the calls made on the breaker:
\*   last_call        the last call made
\*   fail_run         record_failure calls since the last record_success
\*   half_successes   record_success calls made in a row while HalfOpen
\*   since_open       clock ticks since the breaker last became Open
\*   opened           the breaker has been Open at some time
NewBreakerLog == [last_call |-> "new", fail_run |-> 0, half_successes |-> 0,
                  since_open |-> 0, opened |-> FALSE]

InitBreaker(ft, st, rt) ==
    /\ breaker = NewBreaker
    /\ failure_threshold = ft
    /\ success_threshold = st
    /\ retry_timeout = rt
    /\ breaker_log = NewBreakerLog

\* the history after a call that took the breaker from state `from` to `to`
Logged(call, from, to) ==
    [breaker_log EXCEPT
        !.last_call = call,
        !.fail_run = IF call = "record_failure" THEN @ + 1
                     ELSE IF call = "record_success" THEN 0 ELSE @,
        !.half_successes =
            IF call = "record_success" /\ from = "HalfOpen" THEN @ + 1
            ELSE IF call = "record_failure" \/ (from # "HalfOpen" /\ to = "HalfOpen")
            THEN 0 ELSE @,
        !.since_open = IF from # "Open" /\ to = "Open" THEN 0 ELSE @,
        !.opened = @ \/ to = "Open"]

\* (variant: the failure threshold must be exceeded)
FailuresReachedStrict(failures) == failures > failure_threshold

\* record_failure: `failures >= self.failure_threshold`
FailuresReached(failures) == failures >= failure_threshold

\* record_success: `successes >= self.success_threshold`
SuccessesReached(successes) == successes >= success_threshold

\* CircuitBreaker::record_success
record_success ==
    /\ breaker.consecutive_successes < CounterCap
    /\ LET successes == breaker.consecutive_successes + 1
           b == [breaker EXCEPT !.consecutive_failures = 0,
                                !.consecutive_successes = successes]
           after ==
               CASE b.state = "HalfOpen" ->
                        IF SuccessesReached(successes)
                        THEN [b EXCEPT !.state = "Closed",
                                       !.consecutive_successes = 0]
                        ELSE b
                 [] b.state = "Open" -> [b EXCEPT !.state = "HalfOpen"]
                 [] b.state = "Closed" -> b
       IN /\ breaker' = after
          /\ breaker_log' = Logged("record_success", breaker.state, after.state)
    /\ UNCHANGED <<failure_threshold, success_threshold, retry_timeout>>

\* CircuitBreaker::record_failure
record_failure ==
    /\ breaker.consecutive_failures < CounterCap
    /\ LET failures == breaker.consecutive_failures + 1
           b == [breaker EXCEPT !.consecutive_successes = 0,
                                !.consecutive_failures = failures]
           after == IF FailuresReached(failures) /\ b.state # "Open"
                    THEN [b EXCEPT !.state = "Open"]
                    ELSE b
       IN /\ breaker' = after
          /\ breaker_log' = Logged("record_failure", breaker.state, after.state)
    /\ UNCHANGED <<failure_threshold, success_threshold, retry_timeout>>

\* CircuitBreaker::try_half_open
try_half_open ==
    /\ LET after == IF breaker.state = "Open"
                    THEN [breaker EXCEPT !.state = "HalfOpen",
                                         !.consecutive_successes = 0]
                    ELSE breaker
       IN /\ breaker' = after
          /\ breaker_log' = Logged("try_half_open", breaker.state, after.state)
    /\ UNCHANGED <<failure_threshold, success_threshold, retry_timeout>>

\* CircuitBreaker::should_allow_request
should_allow_request ==
    CASE breaker.state = "Closed" -> TRUE
      [] breaker.state = "HalfOpen" -> TRUE
      [] breaker.state = "Open" -> FALSE

\* CircuitBreaker::health_status
health_status ==
    CASE breaker.state = "Closed" -> "Healthy"
      [] breaker.state = "HalfOpen" -> "Degraded"
      [] breaker.state = "Open" -> "Unhealthy"

\* time passes: one more tick of the clock that retry_timeout is measured
\* on (counted up to retry_timeout; no call of the breaker reads the clock)
Tick ==
    /\ breaker.state = "Open"
    /\ breaker_log.since_open < retry_timeout
    /\ breaker_log' = [breaker_log EXCEPT !.since_open = @ + 1, !.last_call = "tick"]
    /\ UNCHANGED <<breaker, failure_threshold, success_threshold, retry_timeout>>

(***************************************************************************)
(* Supervisor  (src/src/supervisor/mod.rs)                                 *)
(***************************************************************************)
LoopIds == 1 .. MaxLoops

\* a u64 that is a power of two is written as its exponent, 0 .. 63, and
\* the u64 zero as Zero64; the delays of SupervisorConfig are powers of two
U64Bits == 64
Zero64 == -1
Panic == -2

\* 2u64.pow(attempts), and the product of two such numbers: on overflow a
\* release build wraps (2^k mod 2^64 = 0 for k >= 64), a debug build panics
Overflows(exp) == exp >= U64Bits

\* u64::min
Min64(v, max_exp) ==
    IF v = Zero64 THEN Zero64 ELSE IF v < max_exp THEN v ELSE max_exp

\* Supervisor::calculate_backoff, on a build of the given kind
calculate_backoff(attempts, min_exp, max_exp, build) ==
    IF Overflows(attempts) \/ Overflows(min_exp + attempts)
    THEN IF build = "debug" THEN Panic ELSE Min64(Zero64, max_exp)
    ELSE Min64(min_exp + attempts, max_exp)

\* the milliseconds a delay stands for
Ms(v) == IF v = Zero64 THEN 0 ELSE 2 ^ v

\* Option<Instant>::None of SupervisedPool.last_respawn; Some(instant) is
\* kept as the time elapsed since the instant, counted up to AgeCap, the
\* largest delay
None == -1
AgeCap == 2 ^ MaxDelayExp

NoRecord == [respawn_attempts |-> -1, last_respawn |-> None]

\* Supervisor::register_pool: the SupervisedPool record it inserts
NewRecord == [respawn_attempts |-> 0, last_respawn |-> None]

Supervised == {s \in Sites : supervised[s] # NoRecord}

NoLoop == [pc |-> "none", todo |-> {}, site |-> "", attempts |-> 0, delay_ms |-> 0]

\* no call of calculate_backoff is under study
NotComputed == -3
NoCall == [attempts |-> 0, min_exp |-> 0, max_exp |-> 0, build |-> "release",
           result |-> NotComputed]

\* Supervisor::new, then register_pool for the sites given
InitSupervisor(cfg, sites) ==
    /\ sup_config = cfg
    /\ supervised = [s \in Sites |-> IF s \in sites THEN NewRecord ELSE NoRecord]
    /\ healing_events = 0
    /\ running = FALSE
    /\ loops = [l \in LoopIds |-> NoLoop]
    /\ backoff = NoCall

\* CagePool::health_stats
health_stats ==
    [total_cages |-> Len(cages),
     healthy_cages |-> Cardinality({i \in 1 .. Len(cages) :
                          state[cages[i]] = "Running" /\ is_healthy(cages[i])}),
     crashed_cages |-> Cardinality({i \in 1 .. Len(cages) :
                          state[cages[i]] = "Crashed"})]

\* the loop's test `stats.crashed_cages > 0 || stats.healthy_cages == 0`
RequiresHealing(stats) == stats.crashed_cages > 0 \/ stats.healthy_cages = 0

\* Supervisor::register_pool.  The map is a DashMap: an insert waits while
\* a loop iterates over it, so the record is replaced between sweeps
sup_register_pool(site) ==
    /\ \A l \in LoopIds : loops[l].pc \in {"none", "check", "tick"}
    /\ supervised' = [supervised EXCEPT ![site] = NewRecord]
    /\ UNCHANGED <<sup_config, healing_events, running, loops>>

\* Supervisor::start: test-and-set of running, then spawn the loop task
start ==
    IF running
    THEN UNCHANGED <<sup_config, supervised, healing_events, running, loops>>
    ELSE /\ \E l \in LoopIds :
              /\ loops[l].pc = "none"
              /\ \A k \in LoopIds : k < l => loops[k].pc # "none"
              /\ loops' = [loops EXCEPT ![l].pc = "check"]
         /\ running' = TRUE
         /\ UNCHANGED <<sup_config, supervised, healing_events>>

\* Supervisor::stop
stop ==
    /\ running' = FALSE
    /\ UNCHANGED <<sup_config, supervised, healing_events, loops>>

\* the loop's `while running.load(..)`, on entry and after a sweep; a
\* loop that leaves the while has ended, and its slot is free again
loop_while(l) ==
    /\ \/ loops[l].pc = "check"
       \/ loops[l].pc = "sweep" /\ loops[l].todo = {}
    /\ loops' = [loops EXCEPT ![l] = IF running THEN [NoLoop EXCEPT !.pc = "tick"]
                                      ELSE NoLoop]
    /\ UNCHANGED <<sup_config, supervised, healing_events, running>>

\* interval.tick() has returned: the sweep over pools.iter() begins
loop_tick(l) ==
    /\ loops[l].pc = "tick"
    /\ loops' = [loops EXCEPT ![l].pc = "sweep", ![l].todo = Supervised]
    /\ UNCHANGED <<sup_config, supervised, healing_events, running>>

\* one entry of the sweep: health_stats, and the start of heal_pool up to
\* the wait for the last_respawn lock
loop_entry(l, site) ==
    /\ loops[l].pc = "sweep"
    /\ site \in loops[l].todo
    /\ LET attempts == supervised[site].respawn_attempts
           delay == calculate_backoff(attempts, sup_config.min_respawn_delay,
                                      sup_config.max_respawn_delay, sup_config.build)
           done == [loops[l] EXCEPT !.todo = @ \ {site}]
       IN loops' = [loops EXCEPT ![l] =
              IF ~RequiresHealing(health_stats) THEN done
              ELSE IF attempts >= sup_config.max_respawn_attempts THEN done
              ELSE IF delay = Panic THEN [NoLoop EXCEPT !.pc = "panicked"]
              ELSE [done EXCEPT !.pc = "heal", !.site = site,
                                !.attempts = attempts, !.delay_ms = Ms(delay)]]
    /\ UNCHANGED <<sup_config, supervised, healing_events, running>>

\* CagePool::maintain_replicas as one call: the Crashed and Terminated
\* Cages leave the list, and target - current spawns are tried in id order;
\* those of `fail` fail and are dropped, the others join the list Running
maintain_replicas(fail) ==
    LET kept == RetainCages(cages)
        n == ToSpawn(Len(kept))
        ids == [i \in 1 .. n |-> next_cage_id + i - 1]
        Spawned(c) == c \notin fail
        new == SelectSeq(ids, Spawned)
    IN  /\ next_cage_id + n <= MaxCageIds
        /\ fail \subseteq Range(ids)
        /\ ~ReadLocked
        /\ \A c \in Range(cages) : ~StateLocked(c)
        /\ cages' = kept \o new
        /\ next_cage_id' = next_cage_id + n
        /\ state' = [c \in CageIds |-> IF c \in Range(new) THEN "Running" ELSE state[c]]
        /\ healthy' = [c \in CageIds |-> IF c \in Range(new) THEN NewCageHealthy
                                         ELSE healthy[c]]
        /\ UNCHANGED <<active_requests, request_count, target_replicas,
                       round_robin_index>>

\* the rest of heal_pool, under the last_respawn lock: the backoff test on
\* the delay computed before the lock, then maintain_replicas and the
\* bookkeeping
loop_heal(l, fail) ==
    /\ loops[l].pc = "heal"
    /\ LET site == loops[l].site
           rec == supervised[site]
           back == [loops[l] EXCEPT !.pc = "sweep", !.site = "", !.attempts = 0,
                                    !.delay_ms = 0]
       IN /\ loops' = [loops EXCEPT ![l] = back]
          /\ IF rec.last_respawn # None /\ rec.last_respawn < loops[l].delay_ms
             THEN /\ fail = {}
                  /\ UNCHANGED <<cageVars, poolVars, supervised, healing_events>>
             ELSE /\ maintain_replicas(fail)
                  /\ supervised' = [supervised EXCEPT
                         ![site].respawn_attempts = @ + 1,
                         ![site].last_respawn = 0]
                  /\ healing_events' = healing_events + 1
    /\ UNCHANGED <<sup_config, running>>

\* a millisecond passes: every Instant kept in a record is one older
sup_tick ==
    /\ \E s \in Supervised : supervised[s].last_respawn \notin {None, AgeCap}
    /\ supervised' = [s \in Sites |->
           IF supervised[s].last_respawn \in {None, AgeCap} THEN supervised[s]
           ELSE [supervised[s] EXCEPT !.last_respawn = @ + 1]]
    /\ UNCHANGED <<sup_config, healing_events, running, loops>>

(***************************************************************************)
(* Callers of the Cage API: any holder of a handle to a Cage of the list   *)
(***************************************************************************)
CageInitialize(c, ok) ==
    /\ c \in Range(cages)
    /\ initialize(c, ok)
    /\ UNCHANGED <<poolVars, routerVars, req, mt, max_calls, breakerVars, supVars, depVars, callerVars>>

CageHealthCheck(c) ==
    /\ c \in Range(cages)
    /\ health_check(c)
    /\ UNCHANGED <<poolVars, routerVars, req, mt, max_calls, breakerVars, supVars, depVars, callerVars>>

CageMarkCrashed(c) ==
    /\ c \in Range(cages)
    /\ mark_crashed(c)
    /\ Disturb
    /\ UNCHANGED <<poolVars, routerVars, req, max_calls, breakerVars, supVars, depVars, callerVars>>

CageTerminateBegin(c) ==
    /\ c \in Range(cages)
    /\ terminate_begin(c)
    /\ Disturb
    /\ UNCHANGED <<poolVars, routerVars, req, max_calls, breakerVars, supVars, depVars, callerVars>>

CageTerminateEnd(c, timeout) ==
    /\ c \in Range(cages)
    /\ terminate_end(c, timeout)
    /\ Disturb
    /\ UNCHANGED <<poolVars, routerVars, req, max_calls, breakerVars, supVars, depVars, callerVars>>

(***************************************************************************)
(* Specification: one Pool behind the Router, concurrent requests, one     *)
(* maintain_replicas caller, and callers of the Cage API                   *)
(***************************************************************************)
\* CagePool::new has spawned target_replicas Cages; Router::new
InitPool(n, cursor) ==
    /\ target_replicas = n
    /\ cages = [i \in 1 .. n |-> i - 1]
    /\ next_cage_id = n
    /\ round_robin_index = cursor
    /\ state = [c \in CageIds |-> IF c < n THEN "Running" ELSE Absent]
    /\ healthy = [c \in CageIds |-> c < n]
    /\ active_requests = [c \in CageIds |-> 0]
    /\ request_count = [c \in CageIds |-> 0]

InitRouter(registered) ==
    /\ pools = registered
    /\ strategy \in {"RoundRobin", "LeastConnected"}
    /\ total_requests = 0
    /\ successful_requests = 0
    /\ failed_requests = 0
    /\ req = [r \in Tasks |-> IdleReq]
    /\ mt = IdleMt

Route(T, Hosts) ==
    \/ \E r \in T, host \in Hosts : route_begin(r, host)
    \/ \E r \in T : route_lookup(r)
    \/ \E r \in T : select_begin(r)
    \/ \E r \in T : select_scan(r)
    \/ \E r \in T : execute_begin(r)
    \/ \E r \in T : execute_end(r)

Registry ==
    \/ \E site \in Sites : register_pool(site)
    \/ \E site \in Sites : unregister_pool(site)

Maintain ==
    \/ remove_crashed_cages
    \/ maintain_count
    \/ \E ok \in BOOLEAN : spawn_new(ok)
    \/ \E ok \in BOOLEAN : spawn_initialize(ok)
    \/ spawn_push

CageApi ==
    \/ \E c \in CageIds, ok \in BOOLEAN : CageInitialize(c, ok)
    \/ \E c \in CageIds : CageHealthCheck(c)
    \/ \E c \in CageIds : CageMarkCrashed(c)
    \/ \E c \in CageIds : CageTerminateBegin(c)
    \/ \E c \in CageIds, timeout \in BOOLEAN : CageTerminateEnd(c, timeout)

\* a Cage of the list crashes
CageCrashes == \E c \in CageIds : CageMarkCrashed(c)

(***************************************************************************)
(* CanaryManager and ErrorRateTracker  (src/src/deployment/mod.rs)         *)
(*                                                                         *)
(* An f64 traffic percentage is written in tenths: 0.10 is 1, 1.0 is 10.   *)
(* An error rate is kept as the pair <<error_count, total_requests>>.      *)
(***************************************************************************)
Full == 10
Half == 5
TenPercent == 1
\* the ceiling 0.05 of check_error_rate, as 1 / CeilingDen
CeilingDen == 20

CanaryIds == 1 .. MaxCanaries
\* a Uuid no create_canary has handed out
UnknownId == 0

CanaryStatus == {"Testing", "RollingOut", "Completed", "RolledBack"}

\* Option<&str>: None, or a string; the strings are the beta secrets handed
\* out and one string that is no secret
NoneStr == 0
WrongSecret == MaxCanaries + 1
Strings == 1 .. WrongSecret

\* the percentages given to increase_traffic, and the draws of rng.gen()
Percentages == {0 - TenPercent, 0, TenPercent, Half, Full, Full + TenPercent}
Rolls == {0, TenPercent, Half, Full - 1}

\* generate_beta_secret: the n-th secret drawn differs from the earlier ones
generate_beta_secret(n) == n

\* no entry for the site in the map
NoCanary == [canary_id |-> UnknownId, beta_secret |-> NoneStr,
             traffic_percentage |-> 0, status |-> "None"]
NoStats == [total_requests |-> -1, error_count |-> -1]

\* the CanaryDeployment built by create_canary
NewCanary(id) ==
    [canary_id |-> id, beta_secret |-> generate_beta_secret(id),
     traffic_percentage |-> 0, status |-> "Testing"]

\* ErrorRateTracker::init_tracking
NewStats == [total_requests |-> 0, error_count |-> 0]

\* canaries.get(site_id) finds an entry
Found(site) == canaries[site] # NoCanary

\* what a call of the CanaryManager returned
Ret(op, site, cookie, query, arg, result) ==
    [op |-> op, site |-> site, cookie |-> cookie, query |-> query, arg |-> arg,
     is_error |-> FALSE, result |-> result]
NoRet == Ret("none", "", NoneStr, NoneStr, 0, "none")

\* CanaryManager::new
InitCanaryManager ==
    /\ canaries = [s \in Sites |-> NoCanary]
    /\ errors = [i \in CanaryIds |-> NoStats]
    /\ next_canary = 0
    /\ pre_recorded = 0
    /\ dep_ret = NoRet

\* CanaryManager::create_canary
create_canary(site) ==
    /\ next_canary < MaxCanaries
    /\ LET id == next_canary + 1
       IN /\ canaries' = [canaries EXCEPT ![site] = NewCanary(id)]
          /\ errors' = [errors EXCEPT ![id] = NewStats]
          /\ next_canary' = id
          /\ dep_ret' = Ret("create_canary", site, NoneStr, NoneStr, id, "Ok")
    /\ UNCHANGED pre_recorded

\* (variant: the draw is compared whatever the status)
RolloutGateAnyStatus(canary) == TRUE

\* the status test that guards the random draw
RolloutGate(canary) == canary.status = "RollingOut"

\* the value should_route_to_canary returns
ShouldRoute(site, cookie, query, roll) ==
    IF ~Found(site) THEN FALSE
    ELSE IF cookie # NoneStr /\ cookie = canaries[site].beta_secret THEN TRUE
    ELSE IF query # NoneStr /\ query = canaries[site].beta_secret THEN TRUE
    ELSE IF RolloutGate(canaries[site]) THEN roll < canaries[site].traffic_percentage
    ELSE FALSE

\* the draw is made only when the status test is reached
DrawMade(site, cookie, query) ==
    /\ Found(site)
    /\ ~(cookie # NoneStr /\ cookie = canaries[site].beta_secret)
    /\ ~(query # NoneStr /\ query = canaries[site].beta_secret)
    /\ RolloutGate(canaries[site])

Bool(b) == IF b THEN "true" ELSE "false"

\* CanaryManager::should_route_to_canary
should_route_to_canary(site, cookie, query, roll) ==
    /\ ~DrawMade(site, cookie, query) => roll = 0
    /\ dep_ret' = Ret("should_route_to_canary", site, cookie, query, roll,
                      Bool(ShouldRoute(site, cookie, query, roll)))
    /\ UNCHANGED <<canaries, errors, next_canary, pre_recorded>>

\* (variant: any status may be promoted)
PromotableAny(canary) == TRUE

\* the status test of promote_to_production
Promotable(canary) == canary.status = "Testing"

\* CanaryManager::promote_to_production
promote_to_production(site) ==
    /\ IF Found(site) /\ Promotable(canaries[site])
       THEN /\ canaries' = [canaries EXCEPT ![site].status = "RollingOut",
                                            ![site].traffic_percentage = TenPercent]
            /\ dep_ret' = Ret("promote_to_production", site, NoneStr, NoneStr, 0, "Ok")
       ELSE /\ canaries' = canaries
            /\ dep_ret' = Ret("promote_to_production", site, NoneStr, NoneStr, 0, "Err")
    /\ UNCHANGED <<errors, next_canary, pre_recorded>>

\* f64::min(percentage, 1.0)
Min1(percentage) == IF percentage < Full THEN percentage ELSE Full

\* CanaryManager::increase_traffic
increase_traffic(site, percentage) ==
    /\ IF Found(site)
       THEN /\ canaries' = [canaries EXCEPT
                               ![site].traffic_percentage = Min1(percentage)]
            /\ dep_ret' = Ret("increase_traffic", site, NoneStr, NoneStr, percentage,
                              "Ok")
       ELSE /\ canaries' = canaries
            /\ dep_ret' = Ret("increase_traffic", site, NoneStr, NoneStr, percentage,
                              "Err")
    /\ UNCHANGED <<errors, next_canary, pre_recorded>>

\* the map after complete_deployment has found the entry
Completed(site) ==
    [canaries EXCEPT ![site].status = "Completed", ![site].traffic_percentage = Full]

\* CanaryManager::complete_deployment
complete_deployment(site) ==
    /\ canaries' = IF Found(site) THEN Completed(site) ELSE canaries
    /\ dep_ret' = Ret("complete_deployment", site, NoneStr, NoneStr, 0,
                      IF Found(site) THEN "Ok" ELSE "Err")
    /\ UNCHANGED <<errors, next_canary, pre_recorded>>

\* the map after rollback has found the entry
RolledBack(site) ==
    [canaries EXCEPT ![site].status = "RolledBack", ![site].traffic_percentage = 0]

\* CanaryManager::rollback
rollback(site) ==
    /\ canaries' = IF Found(site) THEN RolledBack(site) ELSE canaries
    /\ dep_ret' = Ret("rollback", site, NoneStr, NoneStr, 0,
                      IF Found(site) THEN "Ok" ELSE "Err")
    /\ UNCHANGED <<errors, next_canary, pre_recorded>>

\* the requests recorded for a canary id before the behaviour starts
Base(id) == IF id = 1 THEN pre_recorded ELSE 0

\* ErrorRateTracker::record, through CanaryManager::record_request
record_request(id, is_error) ==
    /\ id \in CanaryIds /\ errors[id] # NoStats =>
           errors[id].total_requests < Base(id) + MaxRequests
    /\ errors' = IF id \in CanaryIds /\ errors[id] # NoStats
                 THEN [errors EXCEPT
                          ![id].total_requests = @ + 1,
                          ![id].error_count = IF is_error THEN @ + 1 ELSE @]
                 ELSE errors
    /\ dep_ret' = [Ret("record_request", "", NoneStr, NoneStr, id, "Ok")
                      EXCEPT !.is_error = is_error]
    /\ UNCHANGED <<canaries, next_canary, pre_recorded>>

\* ErrorRateTracker::error_rate: 0.0 without statistics or requests
error_rate(id) ==
    IF id \notin CanaryIds \/ errors[id] = NoStats THEN <<0, 1>>
    ELSE IF errors[id].total_requests = 0 THEN <<0, 1>>
    ELSE <<errors[id].error_count, errors[id].total_requests>>

\* error_rate > 0.05
TooHigh(rate) == rate[1] * CeilingDen > rate[2]

\* a caller of check_error_rate that is not in a call
IdleChk == [pc |-> "idle", site |-> ""]

\* CanaryManager::check_error_rate up to the drop of the map guard: the
\* rate of the site's canary is read and compared
check_read(site) ==
    /\ chk.pc = "idle"
    /\ IF Found(site) /\ TooHigh(error_rate(canaries[site].canary_id))
       THEN /\ chk' = [pc |-> "rollback", site |-> site]
            /\ UNCHANGED dep_ret
       ELSE /\ chk' = IdleChk
            /\ dep_ret' = Ret("check_error_rate", site, NoneStr, NoneStr, 0, "false")
    /\ UNCHANGED <<canaries, errors, next_canary, pre_recorded>>

\* CanaryManager::check_error_rate after the drop: rollback, return true
check_rollback ==
    /\ chk.pc = "rollback"
    /\ chk' = IdleChk
    /\ canaries' = IF Found(chk.site) THEN RolledBack(chk.site) ELSE canaries
    /\ dep_ret' = Ret("check_error_rate", chk.site, NoneStr, NoneStr, 0,
                      IF Found(chk.site) THEN "true" ELSE "Err")
    /\ UNCHANGED <<errors, next_canary, pre_recorded>>

(***************************************************************************)
(* RollingUpdateOrchestrator  (src/src/deployment/rollout.rs)              *)
(***************************************************************************)
\* `let cage_count = 3`
cage_count == 3

\* RollingUpdateConfig.max_error_rate as a fraction: the default 0.05, and
\* a stricter 0.025
DefaultMaxErrorRate == <<1, CeilingDen>>
StrictMaxErrorRate == <<1, 2 * CeilingDen>>
MaxErrorRates == {DefaultMaxErrorRate, StrictMaxErrorRate}

\* no rolling update is under way
IdleRu == [pc |-> "idle", cage_index |-> 0, timeout_zero |-> FALSE,
           max_error_rate |-> DefaultMaxErrorRate,
           started |-> <<>>, result |-> "none"]

\* execute() has returned
RuDone(result) == [ru EXCEPT !.pc = "done", !.result = result]

\* RollingUpdateOrchestrator::execute is called: the loop starts at Cage
\* index 0 with the 5 s sleep of step 2.  The Pool it is given is not
\* read; `started` keeps the replica list of that moment (history).
\* max_error_rate is the orchestrator's config field, which execute never
\* reads
rollout_execute(timeout_zero, max_error_rate) ==
    /\ ru.pc = "idle"
    /\ ru' = [pc |-> "sleep", cage_index |-> 0, timeout_zero |-> timeout_zero,
              max_error_rate |-> max_error_rate,
              started |-> cages, result |-> "none"]
    /\ UNCHANGED <<canaries, errors, next_canary, pre_recorded, dep_ret>>

\* steps 3 to 5 of one iteration: terminate_cage and spawn_cage are
\* commented out; wait_for_health returns true at its first probe, or
\* false when health_check_timeout is zero, and then the canary is rolled
\* back and execute fails
rollout_health(site) ==
    /\ ru.pc = "sleep"
    /\ IF ru.timeout_zero
       THEN /\ ru' = RuDone("Err")
            /\ canaries' = IF Found(site) THEN RolledBack(site) ELSE canaries
            /\ dep_ret' = Ret("rollback", site, NoneStr, NoneStr, 0,
                              IF Found(site) THEN "Ok" ELSE "Err")
       ELSE /\ ru' = [ru EXCEPT !.pc = "check"]
            /\ UNCHANGED <<canaries, dep_ret>>
    /\ UNCHANGED <<errors, next_canary, pre_recorded>>

\* step 6, check_error_rate up to the drop of its guard; on false, step 7
\* and the next iteration, or the end of the loop
rollout_check_read(site) ==
    /\ ru.pc = "check"
    /\ IF Found(site) /\ TooHigh(error_rate(canaries[site].canary_id))
       THEN /\ ru' = [ru EXCEPT !.pc = "check_rollback"]
            /\ UNCHANGED dep_ret
       ELSE /\ ru' = IF ru.cage_index < cage_count - 1
                     THEN [ru EXCEPT !.pc = "sleep", !.cage_index = @ + 1]
                     ELSE [ru EXCEPT !.pc = "complete"]
            /\ dep_ret' = Ret("check_error_rate", site, NoneStr, NoneStr, 0, "false")
    /\ UNCHANGED <<canaries, errors, next_canary, pre_recorded>>

\* step 6, the rest of check_error_rate: rollback, true, and execute fails
rollout_check_rollback(site) ==
    /\ ru.pc = "check_rollback"
    /\ ru' = RuDone("Err")
    /\ canaries' = IF Found(site) THEN RolledBack(site) ELSE canaries
    /\ dep_ret' = Ret("check_error_rate", site, NoneStr, NoneStr, 0,
                      IF Found(site) THEN "true" ELSE "Err")
    /\ UNCHANGED <<errors, next_canary, pre_recorded>>

\* after the loop: complete_deployment, and its result is execute's
rollout_complete(site) ==
    /\ ru.pc = "complete"
    /\ ru' = RuDone(IF Found(site) THEN "Ok" ELSE "Err")
    /\ canaries' = IF Found(site) THEN Completed(site) ELSE canaries
    /\ dep_ret' = Ret("complete_deployment", site, NoneStr, NoneStr, 0,
                      IF Found(site) THEN "Ok" ELSE "Err")
    /\ UNCHANGED <<errors, next_canary, pre_recorded>>

\* a CanaryManager nobody calls
IdleDeployment ==
    /\ InitCanaryManager
    /\ chk = IdleChk
    /\ ru = IdleRu

\* a caller of Cage::execute_request before its call
IdleCaller == [pc |-> "idle", cage |-> NoCage, result |-> "none"]
\* nobody is in Cage::terminate
NoTerm == [cage |-> NoCage, elapsed |-> 0]

Callers == 1 .. NumCallers

\* the grace period of terminate() and the sleep of its wait loop, in ms
GraceMs == 5000
PollMs == 100

\* no direct caller has called initialize() or health_check() yet; seq
\* changes with every call
NoCageCall == [op |-> "none", cage |-> NoCage, result |-> "none", seq |-> 0]
CageCall(op, c, result) ==
    [op |-> op, cage |-> c, result |-> result, seq |-> 1 - cage_ret.seq]

\* CageConfig.max_concurrent_requests of the Cages (validate() wants >= 1)
max_concurrent_requests == 1

\* the requests caller tasks have executing in Cage c
Executing(c) == {k \in Callers : creq[k].pc = "exec" /\ creq[k].cage = c}

\* Cage::execute_request up to the await of execute_wasm_function: an
\* unhealthy Cage refuses, a healthy one counts the request as active
cage_execute_begin(k, c) ==
    /\ creq[k].pc = "idle"
    /\ state[c] \in CageState
    /\ IF ~is_healthy(c)
       THEN /\ creq' = [creq EXCEPT ![k] = [pc |-> "done", cage |-> c, result |-> "Err"]]
            /\ UNCHANGED active_requests
       ELSE /\ creq' = [creq EXCEPT ![k] = [pc |-> "exec", cage |-> c, result |-> "none"]]
            /\ active_requests' = [active_requests EXCEPT ![c] = @ + 1]
    /\ UNCHANGED <<state, healthy, request_count, term, cage_ret, initialized, taskVars>>

\* Cage::execute_request after the await: the request is no longer active,
\* it is counted, and the response of execute_wasm_function is returned
cage_execute_end(k) ==
    /\ creq[k].pc = "exec"
    /\ active_requests' = [active_requests EXCEPT ![creq[k].cage] = @ - 1]
    /\ request_count' = [request_count EXCEPT ![creq[k].cage] = @ + 1]
    /\ creq' = [creq EXCEPT ![k].pc = "done", ![k].result = "Ok"]
    /\ UNCHANGED <<state, healthy, term, cage_ret, initialized, taskVars>>

\* the task is cancelled while it awaits execute_wasm_function: the future
\* of execute_request is dropped, and nothing after the await runs
cage_execute_cancel(k) ==
    /\ creq[k].pc = "exec"
    /\ creq' = [creq EXCEPT ![k].pc = "cancelled"]
    /\ UNCHANGED <<state, healthy, active_requests, request_count, term, cage_ret, initialized, taskVars>>

\* (variant: the wait has no time limit)
GraceNeverExpires(elapsed) == FALSE

\* `start.elapsed() > timeout` in the wait loop of terminate()
GraceExpired(elapsed) == elapsed > GraceMs

\* Cage::terminate is called
cage_terminate_begin(c) ==
    /\ term.cage = NoCage
    /\ terminate_begin(c)
    /\ term' = [cage |-> c, elapsed |-> 0]
    /\ UNCHANGED <<creq, cage_ret, initialized, taskVars>>

\* one round of the wait loop: requests are active and the grace period is
\* not over, the task sleeps 100 ms
cage_terminate_sleep ==
    /\ term.cage # NoCage
    /\ active_requests[term.cage] > 0
    /\ ~GraceExpired(term.elapsed)
    /\ term' = [term EXCEPT !.elapsed = @ + PollMs]
    /\ UNCHANGED <<state, healthy, active_requests, request_count, creq, cage_ret, initialized, taskVars>>

\* the wait loop ends, terminate() writes Terminated and returns
cage_terminate_end ==
    /\ term.cage # NoCage
    /\ terminate_end(term.cage, GraceExpired(term.elapsed))
    /\ term' = NoTerm
    /\ UNCHANGED <<creq, cage_ret, initialized, taskVars>>

\* the value health_check returns, by the state it reads
HealthCheckResult(s) == s = "Running"

\* a direct caller's Cage::initialize and its result
cage_initialize(c, ok) ==
    /\ initialize(c, ok)
    /\ cage_ret' = CageCall("initialize", c, IF ok THEN "Ok" ELSE "Err")
    /\ initialized' = IF ok THEN initialized \cup {c} ELSE initialized
    /\ UNCHANGED <<creq, term, taskVars>>

\* a direct caller's Cage::health_check and its result
cage_health_check(c) ==
    /\ health_check(c)
    /\ cage_ret' = CageCall("health_check", c,
                            IF HealthCheckResult(state[c]) THEN "true" ELSE "false")
    /\ UNCHANGED <<creq, term, initialized, taskVars>>

(***************************************************************************)
(* Concurrent maintain_replicas calls on one Pool, the worker threads of   *)
(* the runtime, and the Pools of several sites                             *)
(***************************************************************************)
Maintainers == 1 .. NumMaintainers

\* a task before its maintain_replicas call
IdleTask == [pc |-> "idle", to_spawn |-> 0, new_cage |-> NoCage]

\* a task sits in futures::executor::block_on(cage.state()) inside retain:
\* it holds the list's write lock, and its worker thread is parked
Parked == {m \in Maintainers : mtasks[m].pc = "block_on"}
WriteLocked == Parked # {}

\* terminate() has no sleep left to do: its task is being polled, or will
\* be when its 100 ms sleep ends, and runs to its return
TermRunning ==
    /\ term.cage # NoCage
    /\ active_requests[term.cage] = 0 \/ GraceExpired(term.elapsed)

\* a task inside maintain_replicas is being polled: none of its awaits
\* suspends it, except the wait for the list's lock while another task
\* holds the write lock
Polling(m) ==
    \/ mtasks[m].pc \in {"block_on", "spawn"}
    \/ mtasks[m].pc \in {"count", "push"} /\ ~WriteLocked

\* the worker threads that are polling a task or are parked
Busy ==
    Cardinality({m \in Maintainers : Polling(m)}) + (IF TermRunning THEN 1 ELSE 0)

\* a worker thread is left to poll a task that starts, or that wakes from
\* a sleep
FreeWorker == Busy < workers

\* a Cage of the list has its state lock held by terminate()
ListStateLocked == \E c \in Range(cages) : StateLocked(c)

\* maintain_replicas is called: remove_crashed_cages takes the write lock
\* and runs retain, whose block_on(cage.state()) parks the thread while a
\* Cage of the list is inside terminate()
task_remove_crashed_cages(m) ==
    /\ mtasks[m].pc \in {"idle", "done"}
    /\ FreeWorker
    /\ ~WriteLocked
    /\ ~ReadLocked
    /\ next_cage_id < MaxCageIds
    /\ IF ListStateLocked
       THEN /\ mtasks' = [mtasks EXCEPT ![m] = [IdleTask EXCEPT !.pc = "block_on"]]
            /\ UNCHANGED cages
       ELSE /\ mtasks' = [mtasks EXCEPT ![m] = [IdleTask EXCEPT !.pc = "count"]]
            /\ cages' = RetainCages(cages)
    /\ UNCHANGED <<cageVars, target_replicas, next_cage_id, round_robin_index,
                   creq, term, cage_ret, initialized, workers, site_pools>>

\* block_on returns once the state lock is free: retain finishes
task_block_on_returns(m) ==
    /\ mtasks[m].pc = "block_on"
    /\ ~ListStateLocked
    /\ mtasks' = [mtasks EXCEPT ![m].pc = "count"]
    /\ cages' = RetainCages(cages)
    /\ UNCHANGED <<cageVars, target_replicas, next_cage_id, round_robin_index,
                   creq, term, cage_ret, initialized, workers, site_pools>>

\* maintain_replicas: read the size, decide how many Cages to spawn
task_maintain_count(m) ==
    /\ mtasks[m].pc = "count"
    /\ ~WriteLocked
    /\ LET n == ToSpawn(Len(cages)) IN
       mtasks' = [mtasks EXCEPT ![m].to_spawn = n,
                                ![m].pc = IF n > 0 THEN "spawn" ELSE "done"]
    /\ UNCHANGED <<cageVars, poolVars, creq, term, cage_ret, initialized,
                   workers, site_pools>>

\* the task after one spawn_cage call of its loop
AfterTaskSpawn(t) ==
    [t EXCEPT !.new_cage = NoCage, !.to_spawn = @ - 1,
              !.pc = IF t.to_spawn = 1 THEN "done" ELSE "spawn"]

\* spawn_cage up to the write lock: take the next id, Cage::new, initialize
task_spawn_cage(m, ok) ==
    /\ mtasks[m].pc = "spawn"
    /\ next_cage_id \in CageIds
    /\ next_cage_id' = next_cage_id + 1
    /\ IF ok
       THEN /\ state' = [state EXCEPT ![next_cage_id] = "Running"]
            /\ healthy' = [healthy EXCEPT ![next_cage_id] = NewCageHealthy]
            /\ mtasks' = [mtasks EXCEPT ![m].pc = "push", ![m].new_cage = next_cage_id]
       ELSE /\ mtasks' = [mtasks EXCEPT ![m] = AfterTaskSpawn(@)]
            /\ UNCHANGED <<state, healthy>>
    /\ UNCHANGED <<active_requests, request_count, cages, target_replicas,
                   round_robin_index, creq, term, cage_ret, initialized,
                   workers, site_pools>>

\* spawn_cage: take the write lock and push the Cage
task_spawn_push(m) ==
    /\ mtasks[m].pc = "push"
    /\ ~WriteLocked
    /\ ~ReadLocked
    /\ cages' = Append(cages, mtasks[m].new_cage)
    /\ mtasks' = [mtasks EXCEPT ![m] = AfterTaskSpawn(@)]
    /\ UNCHANGED <<cageVars, target_replicas, next_cage_id, round_robin_index,
                   creq, term, cage_ret, initialized, workers, site_pools>>

\* CagePool::new before its first spawn: next_cage_id is 0
NewPool == [next_cage_id |-> 0, spawned |-> <<>>]

\* spawn_cage of the Pool of one site: next_cage_id.fetch_add(1) gives the
\* id of the Cage that Cage::new builds; ok tells whether the spawn succeeds
pool_spawn_cage(site, ok) ==
    /\ Len(site_pools[site].spawned) < MaxReplicas + MaxRespawns
    /\ site_pools' = [site_pools EXCEPT
                         ![site].next_cage_id = @ + 1,
                         ![site].spawned = Append(@, [id |-> site_pools[site].next_cage_id,
                                                      ok |-> ok])]
    /\ UNCHANGED <<creq, term, cage_ret, initialized, mtasks, workers>>

\* no direct caller of a Cage
IdleCallers ==
    /\ creq = [k \in 1 .. NumCallers |-> IdleCaller]
    /\ term = NoTerm
    /\ cage_ret = NoCageCall
    /\ initialized = {c \in CageIds : state[c] = "Running"}
    /\ mtasks = [m \in Maintainers |-> IdleTask]
    /\ workers = 1
    /\ site_pools = [s \in Sites |-> NewPool]

\* the breaker is not used by the Router or the Pool: a breaker nobody calls
IdleBreaker == InitBreaker(MaxThreshold, MaxThreshold, MaxRetryTimeout)

\* SupervisorConfig with delays of 2^min_exp and 2^max_exp ms
Config(max_attempts, min_exp, max_exp, build) ==
    [max_respawn_attempts |-> max_attempts, min_respawn_delay |-> min_exp,
     max_respawn_delay |-> max_exp, build |-> build]

\* a Supervisor that supervises nothing and is never started
IdleSupervisor == InitSupervisor(Config(MaxAttempts, 0, MaxDelayExp, "release"), {})

\* the Router with concurrent requests over a Pool whose Cages crash
Init ==
    /\ \E n \in 0 .. MaxReplicas : InitPool(n, 0)
    /\ InitRouter({})
    /\ max_calls = MaxCalls
    /\ IdleBreaker
    /\ IdleSupervisor
    /\ IdleDeployment
    /\ IdleCallers

Next == Route(Tasks, Sites) \/ Registry \/ CageCrashes

Spec == Init /\ [][Next]_vars

\* a Pool under upkeep: maintain_replicas and the callers of the Cage API
InitPoolUpkeep ==
    /\ \E n \in 1 .. MaxReplicas : InitPool(n, 0)
    /\ InitRouter({RegisteredSite})
    /\ strategy = "RoundRobin"
    /\ max_calls = 0
    /\ IdleBreaker
    /\ IdleSupervisor
    /\ IdleDeployment
    /\ IdleCallers

NextPoolUpkeep == Maintain \/ CageApi

SpecPoolUpkeep == InitPoolUpkeep /\ [][NextPoolUpkeep]_vars

\* selection against upkeep: one request at a time while the Pool is
\* maintained and its Cages crash
InitSelect ==
    /\ InitPool(MaxReplicas, 0)
    /\ InitRouter({RegisteredSite})
    /\ max_calls = MaxSelectCalls
    /\ IdleBreaker
    /\ IdleSupervisor
    /\ IdleDeployment
    /\ IdleCallers

NextSelect == Route({1}, {RegisteredSite}) \/ Maintain \/ CageCrashes

SpecSelect == InitSelect /\ [][NextSelect]_vars

\* sequential round-robin requests over a Pool whose Cages all stay healthy
InitRR ==
    /\ \E n \in 1 .. MaxRRReplicas, cursor \in 0 .. (MaxRRReplicas - 1) :
          InitPool(n, cursor)
    /\ pools = {RegisteredSite}
    /\ strategy = "RoundRobin"
    /\ total_requests = 0
    /\ successful_requests = 0
    /\ failed_requests = 0
    /\ req = [r \in Tasks |-> IdleReq]
    /\ mt = IdleMt
    /\ max_calls = MaxRRCalls
    /\ IdleBreaker
    /\ IdleSupervisor
    /\ IdleDeployment
    /\ IdleCallers

NextRR == Route({1}, {RegisteredSite})

SpecRR == InitRR /\ [][NextRR]_vars

\* a CircuitBreaker and its caller
BreakerRecordSuccess ==
    /\ record_success
    /\ UNCHANGED <<cageVars, poolVars, routerVars, req, mt, max_calls, supVars, depVars, callerVars>>

BreakerRecordFailure ==
    /\ record_failure
    /\ UNCHANGED <<cageVars, poolVars, routerVars, req, mt, max_calls, supVars, depVars, callerVars>>

BreakerTryHalfOpen ==
    /\ try_half_open
    /\ UNCHANGED <<cageVars, poolVars, routerVars, req, mt, max_calls, supVars, depVars, callerVars>>

BreakerTick ==
    /\ Tick
    /\ UNCHANGED <<cageVars, poolVars, routerVars, req, mt, max_calls, supVars, depVars, callerVars>>

InitBreakerSpec ==
    /\ InitPool(0, 0)
    /\ InitRouter({})
    /\ strategy = "RoundRobin"
    /\ max_calls = 0
    /\ \E ft \in 1 .. MaxThreshold, st \in 1 .. MaxThreshold,
          rt \in 1 .. MaxRetryTimeout : InitBreaker(ft, st, rt)
    /\ IdleSupervisor
    /\ IdleDeployment
    /\ IdleCallers

NextBreaker ==
    \/ BreakerRecordSuccess
    \/ BreakerRecordFailure
    \/ BreakerTryHalfOpen
    \/ BreakerTick

SpecBreaker == InitBreakerSpec /\ [][NextBreaker]_vars

\* the Supervisor over one supervised Pool whose Cages crash
SupRegisterPool(site) ==
    /\ sup_register_pool(site)
    /\ UNCHANGED <<cageVars, poolVars, routerVars, req, mt, max_calls, breakerVars,
                   backoff, depVars, callerVars>>

SupStart ==
    /\ start
    /\ UNCHANGED <<cageVars, poolVars, routerVars, req, mt, max_calls, breakerVars,
                   backoff, depVars, callerVars>>

SupStop ==
    /\ stop
    /\ UNCHANGED <<cageVars, poolVars, routerVars, req, mt, max_calls, breakerVars,
                   backoff, depVars, callerVars>>

LoopWhile(l) ==
    /\ loop_while(l)
    /\ UNCHANGED <<cageVars, poolVars, routerVars, req, mt, max_calls, breakerVars,
                   backoff, depVars, callerVars>>

LoopTick(l) ==
    /\ loop_tick(l)
    /\ UNCHANGED <<cageVars, poolVars, routerVars, req, mt, max_calls, breakerVars,
                   backoff, depVars, callerVars>>

LoopEntry(l, site) ==
    /\ loop_entry(l, site)
    /\ UNCHANGED <<cageVars, poolVars, routerVars, req, mt, max_calls, breakerVars,
                   backoff, depVars, callerVars>>

LoopHeal(l, fail) ==
    /\ loop_heal(l, fail)
    /\ UNCHANGED <<routerVars, req, mt, max_calls, breakerVars, backoff, depVars, callerVars>>

SupTick ==
    /\ sup_tick
    /\ UNCHANGED <<cageVars, poolVars, routerVars, req, mt, max_calls, breakerVars,
                   backoff, depVars, callerVars>>

\* a Cage of the list crashes, under the eyes of the Supervisor
SupCageCrashes ==
    \E c \in CageIds :
        /\ c \in Range(cages)
        /\ mark_crashed(c)
        /\ UNCHANGED <<poolVars, routerVars, req, mt, max_calls, breakerVars, supVars, depVars, callerVars>>

InitSupervisorSpec ==
    /\ \E n \in 1 .. MaxReplicas : InitPool(n, 0)
    /\ InitRouter({RegisteredSite})
    /\ strategy = "RoundRobin"
    /\ max_calls = 0
    /\ IdleBreaker
    /\ \E a \in 1 .. MaxAttempts, d \in 0 .. MaxDelayExp :
          InitSupervisor(Config(a, 0, d, "release"), {RegisteredSite})
    /\ IdleDeployment
    /\ IdleCallers

SupLoops ==
    \/ \E l \in LoopIds : LoopWhile(l)
    \/ \E l \in LoopIds : LoopTick(l)
    \/ \E l \in LoopIds, site \in Sites : LoopEntry(l, site)
    \/ \E l \in LoopIds, fail \in SUBSET CageIds : LoopHeal(l, fail)

NextSupervisor ==
    \/ SupStart
    \/ SupStop
    \/ SupRegisterPool(RegisteredSite)
    \/ SupLoops
    \/ SupTick
    \/ SupCageCrashes

SpecSupervisor == InitSupervisorSpec /\ [][NextSupervisor]_vars

\* calculate_backoff as a function of its arguments
Backoff ==
    /\ backoff.result = NotComputed
    /\ backoff' = [backoff EXCEPT !.result =
           calculate_backoff(backoff.attempts, backoff.min_exp, backoff.max_exp,
                             backoff.build)]
    /\ UNCHANGED <<cageVars, poolVars, routerVars, req, mt, max_calls, breakerVars,
                   sup_config, supervised, healing_events, running, loops,
                   depVars, callerVars>>

InitBackoff ==
    /\ InitPool(0, 0)
    /\ InitRouter({})
    /\ strategy = "RoundRobin"
    /\ max_calls = 0
    /\ IdleBreaker
    /\ sup_config = Config(MaxAttempts, 0, MaxDelayExp, "release")
    /\ supervised = [s \in Sites |-> NoRecord]
    /\ healing_events = 0
    /\ running = FALSE
    /\ loops = [l \in LoopIds |-> NoLoop]
    /\ \E a \in 0 .. MaxAttemptCount, m \in 0 .. MaxDelayExp, x \in 0 .. MaxDelayExp,
          b \in {"debug", "release"} :
          backoff = [attempts |-> a, min_exp |-> m, max_exp |-> x, build |-> b,
                     result |-> NotComputed]
    /\ IdleDeployment
    /\ IdleCallers

NextBackoff == Backoff

SpecBackoff == InitBackoff /\ [][NextBackoff]_vars

\* callers of the CanaryManager
Others == <<cageVars, poolVars, routerVars, req, mt, max_calls, breakerVars, supVars,
            callerVars>>

CreateCanary(site) ==
    /\ create_canary(site)
    /\ UNCHANGED <<chk, ru, Others>>

ShouldRouteToCanary(site, cookie, query, roll) ==
    /\ should_route_to_canary(site, cookie, query, roll)
    /\ UNCHANGED <<chk, ru, Others>>

PromoteToProduction(site) ==
    /\ promote_to_production(site)
    /\ UNCHANGED <<chk, ru, Others>>

IncreaseTraffic(site, percentage) ==
    /\ increase_traffic(site, percentage)
    /\ UNCHANGED <<chk, ru, Others>>

CompleteDeployment(site) ==
    /\ complete_deployment(site)
    /\ UNCHANGED <<chk, ru, Others>>

Rollback(site) ==
    /\ rollback(site)
    /\ UNCHANGED <<chk, ru, Others>>

RecordRequest(id, is_error) ==
    /\ record_request(id, is_error)
    /\ UNCHANGED <<chk, ru, Others>>

CheckRead(site) ==
    /\ check_read(site)
    /\ UNCHANGED <<ru, Others>>

CheckRollback ==
    /\ check_rollback
    /\ UNCHANGED <<ru, Others>>

\* the calls that change a canary record
Lifecycle ==
    \/ CreateCanary(RegisteredSite)
    \/ \E site \in Sites : PromoteToProduction(site)
    \/ \E site \in Sites, percentage \in Percentages : IncreaseTraffic(site, percentage)
    \/ \E site \in Sites : CompleteDeployment(site)
    \/ \E site \in Sites : Rollback(site)

\* the CanaryManager of one site: the life of its canaries and the routing
\* of requests
InitCanary ==
    /\ InitPool(0, 0)
    /\ InitRouter({})
    /\ strategy = "RoundRobin"
    /\ max_calls = 0
    /\ IdleBreaker
    /\ IdleSupervisor
    /\ IdleDeployment
    /\ IdleCallers

NextCanary ==
    \/ Lifecycle
    \/ \E site \in Sites, cookie \in {NoneStr} \cup Strings,
          query \in {NoneStr} \cup Strings, roll \in Rolls :
          ShouldRouteToCanary(site, cookie, query, roll)

SpecCanary == InitCanary /\ [][NextCanary]_vars

\* the CanaryManager after create_canary for RegisteredSite and n requests
\* recorded for that canary, none of them an error
AfterRequests(n) ==
    /\ canaries = [s \in Sites |-> IF s = RegisteredSite THEN NewCanary(1) ELSE NoCanary]
    /\ errors = [i \in CanaryIds |->
                    IF i = 1 THEN [total_requests |-> n, error_count |-> 0]
                    ELSE NoStats]
    /\ next_canary = 1
    /\ pre_recorded = n
    /\ dep_ret = Ret("record_request", "", NoneStr, NoneStr, 1, "Ok")

\* the CanaryManager of one site: the life of its canaries, the recording
\* of requests and the error-rate check
InitCanaryRate ==
    /\ InitPool(0, 0)
    /\ InitRouter({})
    /\ strategy = "RoundRobin"
    /\ max_calls = 0
    /\ IdleBreaker
    /\ IdleSupervisor
    /\ InitCanaryManager \/ AfterRequests(CeilingDen - 1)
    /\ chk = IdleChk
    /\ ru = IdleRu
    /\ IdleCallers

NextCanaryRate ==
    \/ Lifecycle
    \/ \E id \in CanaryIds \cup {UnknownId}, is_error \in BOOLEAN :
          RecordRequest(id, is_error)
    \/ \E site \in Sites : CheckRead(site)
    \/ CheckRollback

SpecCanaryRate == InitCanaryRate /\ [][NextCanaryRate]_vars

\* the steps of execute(RegisteredSite, pool, canary_manager, bytes)
RolloutOthers == <<cageVars, poolVars, routerVars, req, mt, max_calls, breakerVars,
                   supVars, callerVars, chk>>

RolloutExecute(timeout_zero, max_error_rate) ==
    /\ rollout_execute(timeout_zero, max_error_rate)
    /\ UNCHANGED RolloutOthers

RolloutHealth ==
    /\ rollout_health(RegisteredSite)
    /\ UNCHANGED RolloutOthers

RolloutCheckRead ==
    /\ rollout_check_read(RegisteredSite)
    /\ UNCHANGED RolloutOthers

RolloutCheckRollback ==
    /\ rollout_check_rollback(RegisteredSite)
    /\ UNCHANGED RolloutOthers

RolloutComplete ==
    /\ rollout_complete(RegisteredSite)
    /\ UNCHANGED RolloutOthers

Rollout ==
    \/ \E timeout_zero \in BOOLEAN, max_error_rate \in MaxErrorRates :
          RolloutExecute(timeout_zero, max_error_rate)
    \/ RolloutHealth
    \/ RolloutCheckRead
    \/ RolloutCheckRollback
    \/ RolloutComplete

\* direct callers of one Cage
CallerOthers == <<poolVars, routerVars, req, mt, max_calls, breakerVars, supVars,
                  depVars>>

CageExecuteBegin(k, c) ==
    /\ cage_execute_begin(k, c)
    /\ UNCHANGED CallerOthers

CageExecuteEnd(k) ==
    /\ cage_execute_end(k)
    /\ UNCHANGED CallerOthers

CageExecuteCancel(k) ==
    /\ cage_execute_cancel(k)
    /\ UNCHANGED CallerOthers

CageTerminateCall(c) ==
    /\ cage_terminate_begin(c)
    /\ UNCHANGED CallerOthers

CageTerminateSleep ==
    /\ cage_terminate_sleep
    /\ UNCHANGED CallerOthers

CageTerminateReturn ==
    /\ cage_terminate_end
    /\ UNCHANGED CallerOthers

CageCrash(c) ==
    /\ mark_crashed(c)
    /\ UNCHANGED <<CallerOthers, callerVars>>

CageProbe(c) ==
    /\ health_check(c)
    /\ UNCHANGED <<CallerOthers, callerVars>>

CageHealthCheckCall(c) ==
    /\ cage_health_check(c)
    /\ UNCHANGED CallerOthers

CageInitializeCall(c, ok) ==
    /\ cage_initialize(c, ok)
    /\ UNCHANGED CallerOthers

\* the task in terminate()
Terminating ==
    \/ CageTerminateSleep
    \/ CageTerminateReturn

\* one Cage, tasks that execute requests in it and may be cancelled, and a
\* task that terminates it
InitCage ==
    /\ InitPool(1, 0)
    /\ InitRouter({RegisteredSite})
    /\ strategy = "RoundRobin"
    /\ max_calls = 0
    /\ IdleBreaker
    /\ IdleSupervisor
    /\ IdleDeployment
    /\ IdleCallers

NextCage ==
    \/ \E k \in Callers, c \in CageIds : CageExecuteBegin(k, c)
    \/ \E k \in Callers : CageExecuteEnd(k)
    \/ \E k \in Callers : CageExecuteCancel(k)
    \/ \E c \in CageIds : CageTerminateCall(c)
    \/ Terminating
    \/ \E c \in CageIds : CageCrash(c)
    \/ \E c \in CageIds : CageProbe(c)

\* the runtime keeps polling the task in terminate(), and its sleeps end
SpecCage == InitCage /\ [][NextCage]_vars /\ WF_vars(Terminating)

\* one Cage, just built by Cage::new or already initialized and Running in
\* its Pool, and the tasks that hold a handle of it: they initialize it,
\* probe it, execute requests in it, mark it crashed and terminate it
InitCageApi ==
    /\ target_replicas = 1
    /\ next_cage_id = 1
    /\ round_robin_index = 0
    /\ \E fresh \in BOOLEAN :
          /\ cages = IF fresh THEN <<>> ELSE <<0>>
          /\ state = [c \in CageIds |->
                         IF c # 0 THEN Absent
                         ELSE IF fresh THEN NewCageState ELSE "Running"]
    /\ healthy = [c \in CageIds |-> c = 0 /\ NewCageHealthy]
    /\ active_requests = [c \in CageIds |-> 0]
    /\ request_count = [c \in CageIds |-> 0]
    /\ InitRouter({RegisteredSite})
    /\ strategy = "RoundRobin"
    /\ max_calls = 0
    /\ IdleBreaker
    /\ IdleSupervisor
    /\ IdleDeployment
    /\ IdleCallers

NextCageApi ==
    \/ \E c \in CageIds, ok \in BOOLEAN : CageInitializeCall(c, ok)
    \/ \E c \in CageIds : CageHealthCheckCall(c)
    \/ \E c \in CageIds : CageCrash(c)
    \/ \E k \in Callers, c \in CageIds : CageExecuteBegin(k, c)
    \/ \E k \in Callers : CageExecuteEnd(k)
    \/ \E c \in CageIds : CageTerminateCall(c)
    \/ Terminating

SpecCageApi == InitCageApi /\ [][NextCageApi]_vars

\* the Router with a Pool registered for RegisteredSite and for
\* default-site, and requests whose Host header is any of HostHeaders
InitHost ==
    /\ InitPool(1, 0)
    /\ InitRouter({RegisteredSite, DefaultSite})
    /\ max_calls = MaxCalls
    /\ IdleBreaker
    /\ IdleSupervisor
    /\ IdleDeployment
    /\ IdleCallers

NextHost == Route(Tasks, HostHeaders) \/ CageCrashes

SpecHost == InitHost /\ [][NextHost]_vars

\* tasks that call maintain_replicas on one Pool
TaskOthers == <<routerVars, req, mt, max_calls, breakerVars, supVars, depVars>>

MaintainTasks(M) ==
    \/ \E m \in M : task_remove_crashed_cages(m) /\ UNCHANGED TaskOthers
    \/ \E m \in M : task_block_on_returns(m) /\ UNCHANGED TaskOthers
    \/ \E m \in M : task_maintain_count(m) /\ UNCHANGED TaskOthers
    \/ \E m \in M, ok \in BOOLEAN : task_spawn_cage(m, ok) /\ UNCHANGED TaskOthers
    \/ \E m \in M : task_spawn_push(m) /\ UNCHANGED TaskOthers

\* a Cage of the list crashes, or a holder of its handle terminates it
ListedCageCrash == \E c \in Range(cages) : CageCrash(c)
ListedCageTerminate ==
    \E c \in Range(cages) : FreeWorker /\ CageTerminateCall(c)

\* one Pool on a multi-threaded runtime, NumMaintainers tasks that call
\* maintain_replicas on it, and Cages that crash or are terminated
InitMaintainers ==
    /\ \E n \in 1 .. MaxReplicas : InitPool(n, 0)
    /\ InitRouter({RegisteredSite})
    /\ strategy = "RoundRobin"
    /\ max_calls = 0
    /\ IdleBreaker
    /\ IdleSupervisor
    /\ IdleDeployment
    /\ creq = [k \in 1 .. NumCallers |-> IdleCaller]
    /\ term = NoTerm
    /\ cage_ret = NoCageCall
    /\ initialized = {c \in CageIds : state[c] = "Running"}
    /\ mtasks = [m \in Maintainers |-> IdleTask]
    /\ workers = MaxWorkers
    /\ site_pools = [s \in Sites |-> NewPool]

NextMaintainers ==
    \/ MaintainTasks(Maintainers)
    \/ ListedCageCrash
    \/ ListedCageTerminate
    \/ CageTerminateReturn

SpecMaintainers == InitMaintainers /\ [][NextMaintainers]_vars

\* the state lock is free and the parked task gets it
BlockOnReturns == \E m \in {1} : task_block_on_returns(m) /\ UNCHANGED TaskOthers

\* the steps that need a worker thread and no new call: a request returns,
\* terminate() goes on, maintain_replicas goes on
RuntimeProgress ==
    \/ \E k \in Callers : FreeWorker /\ CageExecuteEnd(k)
    \/ FreeWorker /\ CageTerminateSleep
    \/ (TermRunning \/ FreeWorker) /\ CageTerminateReturn
    \/ BlockOnReturns
    \/ \E m \in {1} : task_maintain_count(m) /\ UNCHANGED TaskOthers
    \/ \E m \in {1}, ok \in BOOLEAN : task_spawn_cage(m, ok) /\ UNCHANGED TaskOthers
    \/ \E m \in {1} : task_spawn_push(m) /\ UNCHANGED TaskOthers

\* one Pool on a runtime of 1 .. MaxWorkers worker threads: a task that
\* calls maintain_replicas, tasks that execute requests in the Pool's
\* Cages, and a task that terminates a Cage
InitRuntime ==
    /\ InitPool(1, 0)
    /\ InitRouter({RegisteredSite})
    /\ strategy = "RoundRobin"
    /\ max_calls = 0
    /\ IdleBreaker
    /\ IdleSupervisor
    /\ IdleDeployment
    /\ creq = [k \in 1 .. NumCallers |-> IdleCaller]
    /\ term = NoTerm
    /\ cage_ret = NoCageCall
    /\ initialized = {c \in CageIds : state[c] = "Running"}
    /\ mtasks = [m \in Maintainers |-> IdleTask]
    /\ workers \in 1 .. MaxWorkers
    /\ site_pools = [s \in Sites |-> NewPool]

NextRuntime ==
    \/ \E k \in Callers, c \in Range(cages) : FreeWorker /\ CageExecuteBegin(k, c)
    \/ ListedCageTerminate
    \/ \E m \in {1} : task_remove_crashed_cages(m) /\ UNCHANGED TaskOthers
    \/ RuntimeProgress

\* the runtime polls every task that can run on a free worker thread, and
\* the state lock is fair: a reader that waits gets it ahead of the next
\* terminate()
SpecRuntime ==
    InitRuntime /\ [][NextRuntime]_vars /\ WF_vars(RuntimeProgress)
                /\ SF_vars(BlockOnReturns)

\* the Pools of two sites, each built by CagePool::new, and their spawns
PoolSpawnCage(site, ok) ==
    /\ pool_spawn_cage(site, ok)
    /\ UNCHANGED <<cageVars, poolVars, TaskOthers>>

InitPools ==
    /\ InitPool(0, 0)
    /\ InitRouter({})
    /\ strategy = "RoundRobin"
    /\ max_calls = 0
    /\ IdleBreaker
    /\ IdleSupervisor
    /\ IdleDeployment
    /\ IdleCallers

NextPools == \E site \in Sites, ok \in BOOLEAN : PoolSpawnCage(site, ok)

SpecPools == InitPools /\ [][NextPools]_vars

TypeOK ==
    /\ state \in [CageIds -> CageState \cup {Absent}]
    /\ healthy \in [CageIds -> BOOLEAN]
    /\ \A c \in CageIds : active_requests[c] \in 0 .. NumTasks
    /\ \A c \in Range(cages) : c \in CageIds
    /\ next_cage_id \in 0 .. MaxCageIds

(***************************************************************************)
(* Claims                                                                  *)
(***************************************************************************)
Exists(c) == state[c] \in CageState

\* C1: a Cage whose healthy flag is set is in state Running (the flag is
\* clear while the Cage is Initializing, Crashed, Terminating or Terminated).
\* Cage::new sets the flag on an Initializing Cage, and terminate() leaves
\* it set while the Cage is Terminating.
C1_HealthyImpliesRunning ==
    \A c \in CageIds : Exists(c) /\ is_healthy(c) => state[c] = "Running"

\* C2: the lifecycle state of a Cage only moves forward: no step takes a
\* Cage from Crashed, Terminating or Terminated to Running or Initializing,
\* or from Terminated to any other state.  initialize() on a Crashed Cage
\* writes Running, and mark_crashed() on a Terminated Cage writes Crashed.
C2_Forward(c) ==
    /\ state[c] \in {"Crashed", "Terminating", "Terminated"}
          => state'[c] \notin {"Running", "Initializing"}
    /\ state[c] = "Terminated" => state'[c] = "Terminated"

C2_OneWayLifecycle == [][\A c \in CageIds : C2_Forward(c)]_vars

\* what a selection saw during its scan
SawHealthy(t) == {j \in 1 .. Len(t.obs) : t.obs[j].healthy}
Examined(t) == {t.obs[j].cage : j \in 1 .. Len(t.obs)}
ReturnedNone(t) == t.pc = "done" /\ t.found /\ t.status = 503
ReturnedCage(t) == t.pc = "exec"

\* C3: a selection returns None only when the list is empty or every Cage
\* of the list was examined and found with its healthy flag clear; a Cage
\* it returns was found with the flag set when examined and is a member of
\* the list, whatever spawns, removals and crashes run beside it.
C3_State ==
    \A r \in Tasks :
        LET t == req[r] IN
        /\ ReturnedNone(t) =>
              \/ Len(t.snap) = 0
              \/ Range(t.snap) \subseteq Examined(t) /\ SawHealthy(t) = {}
        /\ ReturnedCage(t) =>
              /\ t.cage \in Range(t.snap)
              /\ \E j \in SawHealthy(t) : t.obs[j].cage = t.cage

C3_Step ==
    \A r \in Tasks :
        req[r].pc = "scan" /\ req'[r].pc = "exec" => req'[r].cage \in Range(cages)

C3_SelectionSound == []C3_State /\ [][C3_Step]_vars

\* a respawned Cage is returned after an unhealthy Cage was skipped
C3_Witness ==
    /\ ReturnedCage(req[1])
    /\ Len(req[1].obs) >= 2
    /\ req[1].cage >= MaxReplicas

\* position of a Cage in a list
IndexIn(list, c) == CHOOSE i \in 1 .. Len(list) : list[i] = c

\* C4: over a Pool of n Cages that stay healthy, sequential round-robin
\* requests visit consecutive list positions, wrapping at the end, so after
\* n*k requests every Cage has handled exactly k of them.
C4_State ==
    LET t == req[1]
        n == Len(cages)
    IN  /\ t.pc \in {"idle", "done"} /\ total_requests % n = 0 =>
              \A c \in Range(cages) : request_count[c] * n = total_requests

C4_Step ==
    LET t == req[1]
        n == Len(cages)
    IN  t.pc = "scan" /\ t.prev_cage # NoCage /\ req'[1].pc = "exec" =>
            IndexIn(cages, req'[1].cage) - 1 = (IndexIn(cages, t.prev_cage) - 1 + 1) % n

C4_RoundRobinUniform == []C4_State /\ [][C4_Step]_vars

\* three Cages, nine requests, three each
C4_Witness ==
    /\ Len(cages) = 3
    /\ total_requests = 9
    /\ req[1].pc = "done"
    /\ \A c \in Range(cages) : request_count[c] = 3

\* C5: the least-connected selection scans the whole list in order and
\* returns the first Cage, among those seen healthy, whose active count as
\* read is minimal; it returns None only if no Cage was seen healthy.
C5_LeastConnected ==
    strategy = "LeastConnected" =>
    \A r \in Tasks :
        LET t == req[r]
            H == SawHealthy(t)
        IN  /\ ReturnedCage(t) =>
                  /\ Len(t.obs) = Len(t.snap)
                  /\ \A j \in 1 .. Len(t.obs) : t.obs[j].cage = t.snap[j]
                  /\ \E k \in H :
                        /\ t.obs[k].cage = t.cage
                        /\ \A j \in H : t.obs[k].active <= t.obs[j].active
                        /\ \A j \in H : j < k => t.obs[j].active > t.obs[k].active
            /\ ReturnedNone(t) /\ Len(t.snap) > 0 =>
                  /\ Len(t.obs) = Len(t.snap)
                  /\ H = {}

\* a busy healthy Cage is returned although an unhealthy one is idle
C5_Witness ==
    /\ strategy = "LeastConnected"
    /\ \E r \in Tasks :
          /\ ReturnedCage(req[r])
          /\ \E j, k \in 1 .. Len(req[r].obs) :
                /\ req[r].obs[k].cage = req[r].cage
                /\ ~req[r].obs[j].healthy
                /\ active_requests[req[r].obs[j].cage] < req[r].obs[k].active

\* the step in which remove_crashed_cages runs
RemoveStep == mt.pc \in {"idle", "done"} /\ mt'.pc = "count"

\* C6: right after remove_crashed_cages the list holds no Crashed or
\* Terminated Cage, every other Cage of the list is still there in the
\* same relative order, and the returned number is the number removed.
C6_Step ==
    RemoveStep =>
        /\ \A i \in 1 .. Len(cages') :
              state'[cages'[i]] \notin {"Crashed", "Terminated"}
        /\ Range(cages') =
              {c \in Range(cages) : state[c] \notin {"Crashed", "Terminated"}}
        /\ \A i, j \in 1 .. Len(cages') :
              i < j => IndexIn(cages, cages'[i]) < IndexIn(cages, cages'[j])
        /\ mt'.removed =
              Cardinality({i \in 1 .. Len(cages) :
                              state[cages[i]] \in {"Crashed", "Terminated"}})

C6_RemoveCrashed == [][C6_Step]_vars

\* remove_crashed_cages has just removed a Terminated Cage and kept another
C6_Witness ==
    /\ mt.pc = "count"
    /\ mt.removed >= 1
    /\ Len(cages) >= 1
    /\ \E c \in CageIds : state[c] = "Terminated" /\ c \notin Range(cages)

\* C7: when maintain_replicas returns, the Pool holds at least
\* target_replicas Cages or a spawn of that call failed; the call returns
\* Ok either way, and a failed spawn leaves the list as it was.
C7_AtReturn ==
    mt.pc = "done" =>
        /\ mt.result = "Ok"
        /\ Len(cages) >= target_replicas \/ mt.spawn_failed

C7_FailedSpawnStep ==
    (mt.pc \in {"spawn", "init"} /\ mt'.to_spawn = mt.to_spawn - 1)
        => (mt'.spawn_failed /\ cages' = cages)

C7_MaintainReplicas == []C7_AtReturn /\ [][C7_FailedSpawnStep]_vars

\* maintain_replicas has returned Ok below target after a failed spawn,
\* with the Cages it found still in the list
C7_Witness ==
    /\ mt.pc = "done"
    /\ mt.result = "Ok"
    /\ mt.spawn_failed
    /\ Len(cages) < target_replicas
    /\ Len(cages) >= 1

\* what a second maintain_replicas call in succession must leave behind
\* to count as idempotent
\* (the size after a call is the size before, less the Cages removed, plus
\* the Cages spawned: same size and nothing removed is nothing spawned)
SecondCallIdle ==
    /\ Len(cages) = mt.prev_size
    /\ mt.removed = 0

\* C8 as stated: a maintain_replicas call that follows another with no
\* Cage crashing or terminating since the first one began leaves the size
\* unchanged and spawns and removes nothing.  It fails when a spawn of the
\* first call failed: the second call spawns again.
C8_Idempotent ==
    mt.pc = "done" /\ mt.in_succession => SecondCallIdle

\* C8 as amended: the same, provided no spawn of the first call failed.
C8_IdempotentAfterFullSpawn ==
    mt.pc = "done" /\ mt.in_succession /\ ~mt.prev_failed => SecondCallIdle

\* a second call in succession has returned after the first had replaced a
\* removed Cage
C8_Witness ==
    /\ mt.pc = "done"
    /\ mt.in_succession
    /\ ~mt.prev_failed
    /\ next_cage_id > target_replicas
    /\ Len(cages) = target_replicas

\* the route_request calls in flight
InFlight == {r \in Tasks : req[r].pc \notin {"idle", "done"}}

\* C9: route_request answers 404 when the site key has no Pool, 503 when
\* the selection found no healthy Cage (the empty Pool included), 500 when
\* the selected Cage refused to execute, else 200 with the Cage's bytes; in
\* the 404 and 503 cases no Cage is invoked, and a request that is
\* selecting is never made to wait for a replica.
C9_RouteStatus ==
    \A r \in Tasks :
        LET t == req[r] IN
        /\ t.pc = "done" =>
              /\ t.site # RegisteredSite => ~t.found
              /\ ~t.found => t.status = 404
              /\ t.found /\ t.cage = NoCage => t.status = 503
              /\ t.found /\ t.cage # NoCage /\ ~t.exec_ok => t.status = 500
              /\ t.exec_ok => t.status = 200 /\ t.body = t.cage /\ t.invoked
              /\ t.status \in {404, 503} => ~t.invoked /\ t.cage = NoCage
              /\ t.status = 503 => Len(t.snap) = 0 \/ SawHealthy(t) = {}
              /\ t.status = 500 => ~t.invoked
        /\ t.pc = "select" => ENABLED select_begin(r)
        /\ t.pc = "scan" => ENABLED select_scan(r)

\* a request was answered 503 by a Pool none of whose Cages is healthy
C9_Witness ==
    \E r \in Tasks :
        /\ req[r].pc = "done"
        /\ req[r].status = 503
        /\ Len(req[r].snap) >= 1

\* C10: at every point total_requests = successful_requests +
\* failed_requests + the calls in flight, and a call that completes
\* increments exactly one of the two counters by one.
C10_State ==
    total_requests = successful_requests + failed_requests + Cardinality(InFlight)

C10_Step ==
    \A r \in Tasks :
        req[r].pc \notin {"idle", "done"} /\ req'[r].pc = "done" =>
            \/ /\ successful_requests' = successful_requests + 1
               /\ failed_requests' = failed_requests
            \/ /\ successful_requests' = successful_requests
               /\ failed_requests' = failed_requests + 1

C11_UnhealthyAfterSelection503 ==
    \A r \in Tasks :
        LET t == req[r] IN
        t.pc = "done" /\ t.cage # NoCage /\ ~t.exec_ok => t.status = StatusUnavailable

\* C12: a Closed breaker opens exactly at the failure_threshold-th
\* record_failure in a row (no record_success in between): with fewer it is
\* Closed and allows requests; once Open, should_allow_request is false and
\* health_status is Unhealthy.
C12_State ==
    /\ breaker.state = "Closed" =>
          breaker_log.fail_run < failure_threshold /\ should_allow_request
    /\ breaker.state = "Open" =>
          ~should_allow_request /\ health_status = "Unhealthy"

C12_Step ==
    breaker.state = "Closed" /\ breaker'.state # "Closed" =>
        /\ breaker'.state = "Open"
        /\ breaker_log'.last_call = "record_failure"
        /\ breaker_log'.fail_run = failure_threshold

C12_OpensAtThreshold == []C12_State /\ [][C12_Step]_vars

\* the third failure in a row has just opened a breaker of threshold 3
C12_Witness ==
    /\ failure_threshold = 3
    /\ breaker.state = "Open"
    /\ breaker_log.last_call = "record_failure"
    /\ breaker_log.fail_run = 3

\* C13: a breaker that has opened returns to Closed only by a
\* record_success made while HalfOpen that completes success_threshold
\* successes in a row made while HalfOpen, and it closes as soon as that
\* many are made.  The success that takes an Open breaker to HalfOpen is
\* counted in consecutive_successes, so the breaker closes one success early.
C13_State ==
    breaker.state = "HalfOpen" => breaker_log.half_successes < success_threshold

C13_Step ==
    breaker_log.opened /\ breaker.state # "Closed" /\ breaker'.state = "Closed" =>
        /\ breaker.state = "HalfOpen"
        /\ breaker_log'.last_call = "record_success"
        /\ breaker_log'.half_successes >= success_threshold

C13_ClosesAfterHalfOpenSuccesses == []C13_State /\ [][C13_Step]_vars

\* C14: a record_failure made while the breaker is HalfOpen opens it.
\* After a record_success in HalfOpen has zeroed consecutive_failures, one
\* failure stays below failure_threshold and the breaker stays HalfOpen.
C14_Step ==
    breaker.state = "HalfOpen" /\ breaker_log'.last_call = "record_failure" =>
        breaker'.state = "Open"

C14_HalfOpenFailureReopens == [][C14_Step]_vars

\* C15: an Open breaker allows no request and leaves Open only by a
\* try_half_open made once retry_timeout has elapsed since it opened, and
\* then for HalfOpen.  try_half_open never reads the clock, and
\* record_success takes an Open breaker to HalfOpen.
C15_State == breaker.state = "Open" => ~should_allow_request

C15_Step ==
    breaker.state = "Open" /\ breaker'.state # "Open" =>
        /\ breaker'.state = "HalfOpen"
        /\ breaker_log'.last_call = "try_half_open"
        /\ breaker_log.since_open >= retry_timeout

C15_OpenUntilTimeout == []C15_State /\ [][C15_Step]_vars

\* the Supervisor invokes maintain_replicas for the record of site s in
\* this step (heal_pool counts the attempt and the healing event with it)
Heals(s) ==
    /\ supervised[s] # NoRecord
    /\ supervised'[s].respawn_attempts = supervised[s].respawn_attempts + 1

\* C16: once a record's respawn_attempts has reached max_respawn_attempts,
\* the Supervisor neither invokes maintain_replicas for it nor counts a
\* healing event, until the record is replaced.  heal_pool reads the count
\* before it waits for the last_respawn lock: of two loops, the second heals
\* on the count it read before the first one's attempt was counted.
C16_Step ==
    /\ \A s \in Sites :
          Heals(s) => supervised[s].respawn_attempts < sup_config.max_respawn_attempts
    /\ healing_events' # healing_events =>
          \E s \in Sites :
              /\ Heals(s)
              /\ supervised[s].respawn_attempts < sup_config.max_respawn_attempts

C16_NoHealingPastMaxAttempts == [][C16_Step]_vars

\* loop l finishes, in this step, the entry of site s of its sweep
Swept(l, s) ==
    /\ loops[l].pc = "sweep"
    /\ s \in loops[l].todo
    /\ loops'[l].pc = "sweep"
    /\ s \notin loops'[l].todo

\* C17: a sweep that finds a record's Pool healthy (no Crashed Cage, at
\* least one healthy Cage) leaves the record's respawn_attempts at 0.  No
\* statement of the Supervisor writes respawn_attempts but the fetch_add of
\* heal_pool: the count of a healed Pool stays where it was.
C17_Step ==
    \A l \in LoopIds, s \in Sites :
        Swept(l, s) /\ ~RequiresHealing(health_stats) =>
            supervised'[s].respawn_attempts = 0

C17_HealthySweepResetsAttempts == [][C17_Step]_vars

\* min(2^m * 2^a, 2^x) in the integers, as an exponent
IdealDelay(a, m, x) == IF m + a < x THEN m + a ELSE x

\* C18 (the delay rule): the delay calculate_backoff computes for attempt
\* count a is min(min_delay * 2^a, max_delay), and it never exceeds
\* max_delay.  2u64.pow(a) and the product overflow a u64 from a = 64 - m
\* on: a release build wraps to 0, a debug build panics.
C18_BackoffDelay ==
    backoff.result # NotComputed =>
        /\ backoff.result = IdealDelay(backoff.attempts, backoff.min_exp, backoff.max_exp)
        /\ backoff.result <= backoff.max_exp

\* a Cage of the list crashes while enough Cage ids are left to replace
\* every Crashed Cage of the list
LiveCageCrashes ==
    \E c \in CageIds :
        /\ c \in Range(cages)
        /\ state[c] # "Crashed"
        /\ next_cage_id + health_stats.crashed_cages + 1 <= MaxCageIds
        /\ mark_crashed(c)
        /\ UNCHANGED <<poolVars, routerVars, req, mt, max_calls, breakerVars, supVars, depVars, callerVars>>

\* the steps of the spawned loop, every spawn of maintain_replicas
\* succeeding
LiveLoops ==
    \/ \E l \in LoopIds : LoopWhile(l)
    \/ \E l \in LoopIds : LoopTick(l)
    \/ \E l \in LoopIds, site \in Sites : LoopEntry(l, site)
    \/ \E l \in LoopIds : LoopHeal(l, {})

\* the Supervisor started once and never stopped, over one supervised Pool
\* whose Cages crash and whose spawns succeed
NextSupervisorLive ==
    \/ SupStart
    \/ LiveLoops
    \/ SupTick
    \/ LiveCageCrashes

\* the runtime keeps scheduling the spawned task and its interval keeps
\* firing (tokio::spawn, interval.tick), and time passes
SpecSupervisorLive ==
    /\ InitSupervisorSpec
    /\ [][NextSupervisorLive]_vars
    /\ WF_vars(LiveLoops)
    /\ WF_vars(SupTick)

\* a rolling update of a supervised Pool whose Cages crash, the site's
\* canary serving requests that fail meanwhile
InitRollout ==
    /\ InitPool(MaxReplicas, 0)
    /\ InitRouter({RegisteredSite})
    /\ strategy = "RoundRobin"
    /\ max_calls = 0
    /\ IdleBreaker
    /\ InitSupervisor(Config(MaxAttempts, 0, 0, "release"), {RegisteredSite})
    /\ InitCanaryManager \/ AfterRequests(CeilingDen - 1)
    /\ chk = IdleChk
    /\ ru = IdleRu
    /\ IdleCallers

NextRollout ==
    \/ Rollout
    \/ CreateCanary(RegisteredSite)
    \/ \E id \in CanaryIds : RecordRequest(id, TRUE)
    \/ SupStart
    \/ LiveLoops
    \/ SupTick
    \/ LiveCageCrashes

SpecRollout == InitRollout /\ [][NextRollout]_vars

\* the loops that are in the middle of a sweep over the records
Sweeping == {l \in LoopIds : loops[l].pc \in {"sweep", "heal"}}

\* C19: however start() and stop() are interleaved, at most one
\* supervision loop is sweeping the records of the Supervisor.  stop() only
\* stores false in `running`, and a loop reads the flag only between two
\* sweeps: start(); stop(); start() within one interval finds the flag
\* false and spawns a second loop while the first one is still alive, and
\* the first one then reads true and goes on.
C19_AtMostOneLoopSweeping == Cardinality(Sweeping) <= 1

\* the supervised Pool has a Crashed Cage in its list while the Supervisor
\* is running
CrashedWhileRunning == running /\ health_stats.crashed_cages > 0

\* the Pool is back at target_replicas healthy Cages, none Crashed
Healed ==
    /\ health_stats.healthy_cages = target_replicas
    /\ health_stats.crashed_cages = 0

\* C20: whenever a Cage of the supervised Pool is Crashed while the
\* Supervisor is running and spawning succeeds, the Pool eventually has
\* target_replicas healthy Cages again, none Crashed, and healing_events has
\* grown; this for each crash of the Pool's lifetime.  respawn_attempts is
\* only ever incremented: after max_respawn_attempts healings, all of them
\* successful, heal_pool returns at its first test for every later crash.
C20_CrashEventuallyHealed ==
    \A k \in 0 .. MaxAttempts :
        (CrashedWhileRunning /\ healing_events = k) ~> (Healed /\ healing_events > k)

\* C21: the traffic percentage of every canary record lies in [0,1], is 0
\* while the status is Testing or RolledBack, and is 1 while it is
\* Completed.  increase_traffic overwrites the percentage in any status,
\* and caps it at 1.0 only: nothing keeps it from going below 0.
C21_TrafficInvariant ==
    \A s \in Sites :
        Found(s) =>
            /\ canaries[s].traffic_percentage \in 0 .. Full
            /\ canaries[s].status \in {"Testing", "RolledBack"} =>
                   canaries[s].traffic_percentage = 0
            /\ canaries[s].status = "Completed" =>
                   canaries[s].traffic_percentage = Full

\* the latest call of the CanaryManager was should_route_to_canary
Routed == dep_ret.op = "should_route_to_canary"

\* the cookie or the query value of that call is the beta secret of the
\* site's canary
SecretGiven ==
    /\ Found(dep_ret.site)
    /\ \/ dep_ret.cookie # NoneStr /\ dep_ret.cookie = canaries[dep_ret.site].beta_secret
       \/ dep_ret.query # NoneStr /\ dep_ret.query = canaries[dep_ret.site].beta_secret

\* the canary is rolling out and the draw is below its traffic percentage
DrawnIn ==
    /\ Found(dep_ret.site)
    /\ canaries[dep_ret.site].status = "RollingOut"
    /\ dep_ret.arg < canaries[dep_ret.site].traffic_percentage

\* C22: should_route_to_canary returns true exactly when the cookie or the
\* query value equals the site's beta secret, or the canary is RollingOut
\* and the draw is below its traffic percentage; it returns false for a
\* site without a canary and for a Testing canary without the secret.
C22_RoutingPredicate ==
    Routed =>
        /\ dep_ret.result = "true" <=> (SecretGiven \/ DrawnIn)
        /\ dep_ret.result = "false" <=> ~(SecretGiven \/ DrawnIn)
        /\ ~Found(dep_ret.site) => dep_ret.result = "false"
        /\ Found(dep_ret.site) /\ canaries[dep_ret.site].status = "Testing"
               /\ ~SecretGiven => dep_ret.result = "false"

\* a request without the secret was sent to a RollingOut canary by the draw
C22_Witness ==
    /\ Routed
    /\ ~SecretGiven
    /\ DrawnIn
    /\ dep_ret.result = "true"

\* C23: once a canary is RolledBack, every request for its site is served
\* by the stable version: should_route_to_canary returns false whatever
\* cookie or query value the request carries.  The secret is compared
\* before the status is looked at, and in every status.
C23_RolledBackServesStable ==
    Routed /\ Found(dep_ret.site) /\ canaries[dep_ret.site].status = "RolledBack" =>
        dep_ret.result = "false"

\* this step is a call promote_to_production(s) that returns
Promotes(s) ==
    /\ dep_ret'.op = "promote_to_production"
    /\ dep_ret'.site = s
    /\ dep_ret' # dep_ret

C24_Step ==
    \A s \in Sites :
        Promotes(s) =>
            /\ dep_ret'.result \in {"Ok", "Err"}
            /\ dep_ret'.result = "Ok" <=> (Found(s) /\ canaries[s].status = "Testing")
            /\ dep_ret'.result = "Ok" =>
                   /\ canaries'[s].status = "RollingOut"
                   /\ canaries'[s].traffic_percentage = TenPercent
            /\ dep_ret'.result = "Err" => canaries'[s] = canaries[s]

\* C24: promote_to_production succeeds only on a canary in Testing, and
\* then sets status RollingOut and traffic 0.10; for any other status, and
\* for a site without a canary, it returns an error and leaves status and
\* traffic percentage as they were.
C24_PromoteFromTestingOnly == [][C24_Step]_vars

\* a promotion has succeeded
C24_Witness ==
    /\ dep_ret.op = "promote_to_production"
    /\ dep_ret.result = "Ok"
    /\ canaries[dep_ret.site].status = "RollingOut"
    /\ canaries[dep_ret.site].traffic_percentage = TenPercent

\* the status changes the claim allows
AllowedChanges ==
    {<<"Testing", "RollingOut">>, <<"RollingOut", "Completed">>,
     <<"Testing", "RolledBack">>, <<"RollingOut", "RolledBack">>}

C25_Step ==
    \A s \in Sites :
        /\ Found(s)
        /\ canaries'[s].canary_id = canaries[s].canary_id
        /\ canaries'[s].status # canaries[s].status
        => <<canaries[s].status, canaries'[s].status>> \in AllowedChanges

\* C25: the status of a canary changes only from Testing to RollingOut,
\* from RollingOut to Completed, and from Testing or RollingOut to
\* RolledBack; a Completed or RolledBack canary keeps its status.
\* complete_deployment and rollback write the status without reading it.
C25_StatusTransitions == [][C25_Step]_vars

\* the error rate of canary id is above the ceiling of 0.05
RateAbove(id) ==
    /\ id \in CanaryIds
    /\ errors[id] # NoStats
    /\ errors[id].total_requests > 0
    /\ errors[id].error_count * CeilingDen > errors[id].total_requests

\* this step is the return of a call check_error_rate(s)
Checked(s) ==
    /\ dep_ret'.op = "check_error_rate"
    /\ dep_ret'.site = s
    /\ dep_ret' # dep_ret \/ chk' # chk

\* this step is a call record_request(id, _)
Recorded(id) ==
    /\ dep_ret'.op = "record_request"
    /\ dep_ret'.arg = id
    /\ dep_ret' # dep_ret \/ errors' # errors

C26_CheckStep ==
    \A s \in Sites :
        Checked(s) =>
            /\ dep_ret'.result \in {"true", "false"}
            /\ dep_ret'.result = "true" <=>
                   (Found(s) /\ RateAbove(canaries[s].canary_id))
            /\ dep_ret'.result = "true" =>
                   /\ canaries'[s].status = "RolledBack"
                   /\ canaries'[s].traffic_percentage = 0
            /\ dep_ret'.result = "false" => canaries' = canaries

C26_RecordStep ==
    \A id \in CanaryIds \cup {UnknownId} :
        Recorded(id) =>
            /\ canaries' = canaries
            /\ \A i \in CanaryIds :
                   IF i = id /\ errors[i] # NoStats
                   THEN /\ errors'[i].total_requests = errors[i].total_requests + 1
                        /\ errors'[i].error_count =
                               errors[i].error_count + (IF dep_ret'.is_error THEN 1 ELSE 0)
                   ELSE errors'[i] = errors[i]

\* C26: check_error_rate(site) rolls the site's canary back and returns
\* true exactly when the error rate of the site's current canary is above
\* 0.05; otherwise it returns false and leaves status and traffic alone.
\* record_request adds 1 to total_requests, and 1 to error_count for an
\* error, for the canary id it is given and no other.  check_error_rate
\* drops its guard on the map between the comparison and the rollback: a
\* create_canary that comes in between has its new canary rolled back.
C26_ErrorRateCheck == [][C26_CheckStep /\ C26_RecordStep]_vars

\* execute() returns Ok in this step
ExecuteReturnsOk == ru.result # "Ok" /\ ru'.result = "Ok"

C27_Step ==
    ExecuteReturnsOk =>
        /\ \A c \in Range(ru'.started) :
               state'[c] = "Terminated" /\ c \notin Range(cages')
        /\ Len(cages') = target_replicas'
        /\ canaries'[RegisteredSite].status = "Completed"
        /\ canaries'[RegisteredSite].traffic_percentage = Full

\* C27: when execute returns Ok, every Cage that was in the Pool when it
\* started has been terminated and replaced, the Pool holds its full
\* replica count again, and the canary is Completed with traffic 1.0.  The
\* calls that terminate a Cage and spawn its replacement are commented out:
\* execute never touches the Pool it is given.
C27_RolloutReplacesAllCages == [][C27_Step]_vars

\* a rolling update is running
RolloutRunning == ru.pc \notin {"idle", "done"}

\* C28: while a rolling update is running on a Pool, the Supervisor does
\* not invoke maintain_replicas on it.  Neither execute nor the Supervisor
\* knows an owner flag: a sweep during the rollout heals the Pool as at any
\* other time.
C28_NoHealingDuringRollout ==
    [][RolloutRunning => ~Heals(RegisteredSite)]_vars

\* a task is in terminate()
InTerminate == term.cage # NoCage

C29_State ==
    InTerminate =>
        /\ state[term.cage] = "Terminating"
        /\ term.elapsed <= GraceMs + PollMs

C29_Step ==
    /\ ~InTerminate /\ InTerminate' => state'[term'.cage] = "Terminating"
    /\ InTerminate /\ ~InTerminate' =>
           /\ state'[term.cage] = "Terminated"
           /\ ~healthy'[term.cage]
           /\ active_requests[term.cage] = 0 \/ term.elapsed > GraceMs
    /\ \A k \in Callers :
           creq[k].pc = "exec" /\ creq'[k].pc = "done" => creq'[k].result = "Ok"

C30_State ==
    \A c \in CageIds :
        /\ active_requests[c] >= 0
        /\ active_requests[c] = Cardinality(Executing(c))

C30_Step ==
    /\ \A c \in CageIds : request_count'[c] >= request_count[c]
    /\ \A k \in Callers :
           LET c == creq'[k].cage
           IN /\ creq[k].pc = "idle" /\ creq'[k].pc # "idle" =>
                     IF is_healthy(c)
                     THEN /\ creq'[k].pc = "exec"
                          /\ active_requests'[c] = active_requests[c] + 1
                     ELSE /\ creq'[k].result = "Err"
                          /\ active_requests' = active_requests
                          /\ request_count' = request_count
              /\ creq[k].pc = "exec" /\ creq'[k].pc = "done" =>
                     active_requests'[c] = active_requests[c] - 1

\* C30: execute_request on a Cage whose healthy flag is clear returns an
\* error and changes no counter; an admitted request adds 1 to
\* active_requests on entry and takes 1 off on exit, so that
\* active_requests is at every point the number of requests executing in
\* the Cage, also after a request task was cancelled in mid-execution; and
\* total_requests never decreases.  The fetch_sub comes after the await of
\* execute_wasm_function and is not in a drop guard: a task cancelled at
\* that await never runs it.
C30_ActiveRequestsExact == []C30_State /\ [][C30_Step]_vars

\* C31: no more than max_concurrent_requests requests execute in one Cage
\* at a time, and active_requests never exceeds max_concurrent_requests (a
\* further execute_request is refused)
C31_ConcurrencyLimit ==
    \A c \in CageIds :
        /\ Cardinality(Executing(c)) <= max_concurrent_requests
        /\ active_requests[c] <= max_concurrent_requests

\* a step in which a direct caller's call of op returns
CageCallReturns(op) == cage_ret'.seq # cage_ret.seq /\ cage_ret'.op = op

\* C32: initialize() takes a Cage from Initializing to Running when it
\* returns Ok and leaves it Initializing when it returns an error; on a Cage
\* whose initialize() has already returned Ok it returns an error and
\* changes neither the state nor the healthy flag
C32_Step ==
    CageCallReturns("initialize") =>
        LET c == cage_ret'.cage IN
        IF c \in initialized
        THEN /\ cage_ret'.result = "Err"
             /\ state'[c] = state[c]
             /\ healthy'[c] = healthy[c]
        ELSE /\ state[c] = "Initializing"
             /\ state'[c] = IF cage_ret'.result = "Ok" THEN "Running"
                             ELSE "Initializing"
C32_InitializeOnce == [][C32_Step]_vars

\* C37: health_check() returns true exactly when the Cage is Running, and
\* the healthy flag it leaves equals the value it returned
C37_Step ==
    CageCallReturns("health_check") =>
        LET c == cage_ret'.cage IN
        /\ (cage_ret'.result = "true") <=> (state'[c] = "Running")
        /\ healthy'[c] = (cage_ret'.result = "true")
C37_HealthCheckSetsFlag == [][C37_Step]_vars

\* a site key with its capitals folded (UpperSite is the one key of the
\* model that has capitals)
Lower(key) == IF key = UpperSite THEN RegisteredSite ELSE key

\* C33: a request whose site key (the Host header, or default-site without
\* one) equals a registered key up to letter case is not answered 404
C33_HostMatch ==
    \A r \in Tasks :
        /\ req[r].pc = "done"
        /\ \E key \in pools : Lower(key) = Lower(req[r].site)
        => req[r].status # StatusNotFound

\* the spawns of maintain_replicas calls that have a Cage built and not yet
\* appended
SpawnsInFlight == Cardinality({m \in Maintainers : mtasks[m].pc = "push"})

\* C34: the Pool's size is at most target_replicas plus the spawns in
\* flight, and at most target_replicas once every maintain_replicas call
\* has returned, also with concurrent callers
C34_SizeBound ==
    /\ Len(cages) <= target_replicas + SpawnsInFlight
    /\ (\A m \in Maintainers : mtasks[m].pc \in {"idle", "done"})
          => Len(cages) <= target_replicas

\* the spawn_cage calls made so far, as pairs of site key and position
Spawns == {<<s, i>> : s \in Sites, i \in 1 .. (MaxReplicas + MaxRespawns)}
Made == {p \in Spawns : p[2] <= Len(site_pools[p[1]].spawned)}
IdOf(p) == site_pools[p[1]].spawned[p[2]].id

\* C39: no two Cages ever spawned in the process share an id, in one Pool
\* or in different Pools, and within one Pool the ids strictly increase
C39_UniqueIds ==
    \A p, q \in Made :
        /\ p # q => IdOf(p) # IdOf(q)
        /\ p[1] = q[1] /\ p[2] < q[2] => IdOf(p) < IdOf(q)

\* C40: a remove_crashed_cages call that has begun completes: no task
\* stays in block_on for ever
C40_RemoveCompletes ==
    \A m \in Maintainers :
        (mtasks[m].pc = "block_on") ~> (mtasks[m].pc # "block_on")

\* C38: the replica list holds only Cages that are Initializing, Running or
\* Crashed (never a Terminating or Terminated one), and a Cage is appended
\* only after its initialize() succeeded
C38_State ==
    \A c \in Range(cages) : state[c] \in {"Initializing", "Running", "Crashed"}
C38_Step ==
    \A c \in Range(cages') \ Range(cages) : state[c] = "Running"
C38_ListStates == []C38_State /\ [][C38_Step]_vars

\* C35: once stop() has been called (and start() not again), no supervision
\* loop starts a sweep and none begins to process a record: the loop reads
\* the running flag before each record
C35_Step ==
    ~running /\ ~running' =>
        \A l \in LoopIds :
            /\ ~(loops[l].pc = "tick" /\ loops'[l].pc = "sweep")
            /\ ~(loops[l].pc = "sweep" /\ loops'[l].pc = "heal")
C35_StopEndsSweeps == [][C35_Step]_vars

\* rate > max, for two fractions
Exceeds(rate, max) == rate[1] * max[2] > rate[2] * max[1]

\* execute() returns an error in this step
Aborts == ru.pc # "done" /\ ru'.pc = "done" /\ ru'.result = "Err"

\* C36: execute aborts at the step at which the health probe fails or the
\* canary's error rate exceeds the orchestrator's max_error_rate: it does not
\* go on to the next Cage or to complete_deployment; and when it aborts,
\* the site's canary is RolledBack with traffic 0
C36_Step ==
    /\ /\ ru.pc = "check" /\ ru'.pc # "check"
       /\ Found(RegisteredSite)
       /\ Exceeds(error_rate(canaries[RegisteredSite].canary_id), ru.max_error_rate)
       => ru'.pc \notin {"sleep", "complete"}
    /\ ru.pc = "sleep" /\ ru'.pc # "sleep" /\ ru.timeout_zero => Aborts
    /\ Aborts /\ Found(RegisteredSite) =>
          /\ canaries'[RegisteredSite].status = "RolledBack"
          /\ canaries'[RegisteredSite].traffic_percentage = 0
    /\ ru.pc = "done" => ru' = ru
C36_AbortOnHealthOrErrorRate == [][C36_Step]_vars

====
